---------------------------- MODULE Spec2Model ----------------------------
(***************************************************************************)
(* State-machine model of the VirtIO MMIO transport, the split-virtqueue   *)
(* engine and the block-device front end (src/unnamed/part_000).           *)
(*                                                                         *)
(* Guest RAM is a flat, byte-addressed, initially zero memory, kept as a   *)
(* sparse map from address to non-zero byte.  Every handler of the device  *)
(* is an operator from a machine record                                    *)
(*     [dev, mem, irq, bf, halt, ev, heap]                                 *)
(* to the machine record after the handler has returned; an action applies *)
(* one handler to the current state.  `ev' is an observer: the list of the *)
(* guest-visible effects of the handler that ran last.                     *)
(***************************************************************************)
EXTENDS Integers, Sequences, FiniteSets, TLC

(***************************************************************************)
(* Program constants                                                       *)
(***************************************************************************)
VIRTIO_MMIO_DEVICE_FEATURES == 16
VIRTIO_MMIO_DEVICE_FEATURES_SEL == 20
VIRTIO_MMIO_QUEUE_SEL == 48
VIRTIO_MMIO_QUEUE_NUM_MAX == 52
VIRTIO_MMIO_QUEUE_NUM == 56
VIRTIO_MMIO_QUEUE_READY == 68
VIRTIO_MMIO_QUEUE_NOTIFY == 80
VIRTIO_MMIO_INTERRUPT_STATUS == 96
VIRTIO_MMIO_INTERRUPT_ACK == 100
VIRTIO_MMIO_STATUS == 112
VIRTIO_MMIO_QUEUE_DESC_LOW == 128
VIRTIO_MMIO_QUEUE_DESC_HIGH == 132
VIRTIO_MMIO_QUEUE_AVAIL_LOW == 144
VIRTIO_MMIO_QUEUE_AVAIL_HIGH == 148
VIRTIO_MMIO_QUEUE_USED_LOW == 160
VIRTIO_MMIO_QUEUE_USED_HIGH == 164
VIRTIO_MMIO_CONFIG == 256

MAX_QUEUE == 8
MAX_QUEUE_NUM == 16

VRING_DESC_F_NEXT == 1
VRING_DESC_F_WRITE == 2

VIRTIO_BLK_T_IN == 0
VIRTIO_BLK_T_OUT == 1
VIRTIO_BLK_T_FLUSH == 4
VIRTIO_BLK_T_FLUSH_OUT == 5
VIRTIO_BLK_S_OK == 0
VIRTIO_BLK_S_IOERR == 1
VIRTIO_BLK_S_UNSUPP == 2
SECTOR_SIZE == 512

\* sizeof(VIRTIODesc) and sizeof(BlockRequestHeader)
SizeofDesc == 8 + 4 + 2 + 2
SizeofHeader == 4 + 4 + 8

W16 == 256 * 256

(***************************************************************************)
(* Bit operations on naturals                                              *)
(***************************************************************************)
RECURSIVE BitAnd(_, _)
BitAnd(a, b) ==
  IF a = 0 \/ b = 0 THEN 0
  ELSE (IF a % 2 = 1 /\ b % 2 = 1 THEN 1 ELSE 0) + 2 * BitAnd(a \div 2, b \div 2)

\* a & ~b on unsigned values
BitAndNot(a, b) == a - BitAnd(a, b)

BitOr(a, b) == a + b - BitAnd(a, b)

\* C integer division, truncating toward zero
CDiv(a, b) == IF a >= 0 THEN a \div b ELSE -((-a) \div b)

min_int(a, b) == IF a < b THEN a ELSE b

(***************************************************************************)
(* virtio_phys_addr_t: a 64-bit guest-physical address, kept as its two    *)
(* 32-bit halves <<hi, lo>> (VIRTIO_ADDR_BITS == 64).  Address arithmetic  *)
(* adds to the low half; the model never programs a low half close enough  *)
(* to 2^32 for a carry.                                                    *)
(***************************************************************************)
NullAddr == <<0, 0>>

AddrAdd(p, k) == <<p[1], p[2] + k>>

\* Faulty variant of set_low32: the 32-bit form, which drops the high half.
set_low32_narrow(paddr, val) == <<0, val>>

set_low32(paddr, val) == <<paddr[1], val>>

set_high32(paddr, val) == <<val, paddr[2]>>

(***************************************************************************)
(* Guest memory: mmu_t::load / mmu_t::store through the debug MMU,         *)
(* little-endian.  A sparse map from address to non-zero byte; every       *)
(* address not in its domain holds 0.                                      *)
(***************************************************************************)
Rd8(mem, a) == IF a \in DOMAIN mem THEN mem[a] ELSE 0

\* mem with the bytes of patch (address -> byte) stored
MemPatch(mem, patch) ==
  [x \in {y \in DOMAIN patch : patch[y] # 0} |-> patch[x]]
    @@ [x \in DOMAIN mem \ DOMAIN patch |-> mem[x]]

\* the n <= 4 bytes of v, little-endian, as a patch at address a
LEPatch(a, n, v) ==
  [x \in {AddrAdd(a, i) : i \in 0 .. (n - 1)} |->
     (v \div (256 ^ (x[2] - a[2]))) % 256]

Wr8(mem, a, v) == MemPatch(mem, LEPatch(a, 1, v))

RECURSIVE RdLE(_, _, _)
RdLE(mem, a, n) ==
  IF n = 0 THEN 0 ELSE Rd8(mem, a) + 256 * RdLE(mem, AddrAdd(a, 1), n - 1)

WrLE(mem, a, n, v) == MemPatch(mem, LEPatch(a, n, v))

virtio_read16(mem, addr) == RdLE(mem, addr, 2)

virtio_write16(mem, addr, val) == WrLE(mem, addr, 2, val % W16)

virtio_write32(mem, addr, val) == WrLE(mem, addr, 4, val)

\* whether address x lies in [addr, addr + count)
InRange(x, addr, count) ==
  x[1] = addr[1] /\ x[2] >= addr[2] /\ x[2] - addr[2] < count

\* Host buffers are sparse maps from offset to non-zero byte.
EmptyBuf == [o \in {} |-> 0]

\* a host buffer with bytes [at, at + n) replaced by src[0 .. n-1]
BufPut(buf, at, src, n) ==
  [o \in {at + x : x \in {y \in DOMAIN src : y < n}} |-> src[o - at]]
    @@ [o \in {y \in DOMAIN buf : y < at \/ y >= at + n} |-> buf[o]]

\* bytes [pos, pos + n) of a host buffer, as a buffer of its own
BufSlice(buf, pos, n) ==
  [o \in {x - pos : x \in {y \in DOMAIN buf : y >= pos /\ y < pos + n}} |->
     buf[pos + o]] @@ EmptyBuf

\* malloc(n): n bytes of indeterminate contents, every byte being g
malloc(n, g) == IF g = 0 THEN EmptyBuf ELSE [o \in 0 .. (n - 1) |-> g]

\* count bytes of guest memory at addr, as a host buffer.  The per-page
\* split of the source leaves the bytes transferred unchanged.
virtio_memcpy_from_ram(mem, addr, count) ==
  [o \in {x[2] - addr[2] : x \in {y \in DOMAIN mem : InRange(y, addr, count)}}
     |-> mem[AddrAdd(addr, o)]] @@ EmptyBuf

\* bytes buf[pos .. pos+count-1] of a host buffer stored at addr
virtio_memcpy_to_ram(mem, addr, buf, pos, count) ==
  [x \in {AddrAdd(addr, o - pos) :
            o \in {y \in DOMAIN buf : y >= pos /\ y < pos + count}} |->
     buf[pos + (x[2] - addr[2])]]
    @@ [x \in {y \in DOMAIN mem : ~InRange(y, addr, count)} |-> mem[x]]

(***************************************************************************)
(* Device state                                                            *)
(***************************************************************************)
Queues == 0 .. (MAX_QUEUE - 1)

\* the queue state virtio_reset leaves
ResetQueue(qs) ==
  [qs EXCEPT !.ready = 0, !.num = MAX_QUEUE_NUM, !.desc_addr = NullAddr,
             !.avail_addr = NullAddr, !.used_addr = NullAddr, !.last_avail_idx = 0]

\* Faulty variant of virtio_reset: last_avail_idx is not cleared.
virtio_reset_keeps_idx(m) ==
  [m EXCEPT !.dev.status = 0,
            !.dev.queue_sel = 0,
            !.dev.device_features_sel = 0,
            !.dev.int_status = 0,
            !.dev.queue = [i \in Queues |->
                             [ResetQueue(m.dev.queue[i]) EXCEPT
                                !.last_avail_idx = m.dev.queue[i].last_avail_idx]]]

virtio_reset(m) ==
  [m EXCEPT !.dev.status = 0,
            !.dev.queue_sel = 0,
            !.dev.device_features_sel = 0,
            !.dev.int_status = 0,
            !.dev.queue = [i \in Queues |-> ResetQueue(m.dev.queue[i])]]

set_irq(m, level) == [m EXCEPT !.irq = level]

\* memset(s, 0, sizeof(*s)) of mallocz'ed VIRTIOBlockDevice, then virtio_reset
ZeroQueue ==
  [ready |-> 0, num |-> 0, last_avail_idx |-> 0, desc_addr |-> NullAddr,
   avail_addr |-> NullAddr, used_addr |-> NullAddr, manual_recv |-> FALSE]

ZeroReq ==
  [type |-> 0, buf |-> EmptyBuf, write_size |-> 0, queue_idx |-> 0, desc_idx |-> 0]

ZeroDev ==
  [status |-> 0, int_status |-> 0, device_features_sel |-> 0, queue_sel |-> 0,
   queue |-> [i \in Queues |-> ZeroQueue],
   device_id |-> 0, vendor_id |-> 0, device_features |-> 0,
   config_space_size |-> 0, config_space |-> EmptyBuf,
   req_in_progress |-> FALSE, req |-> ZeroReq]

virtio_init(m, device_id, config_space_size) ==
  virtio_reset([m EXCEPT !.dev = [ZeroDev EXCEPT
                                    !.device_id = device_id,
                                    !.vendor_id = 65535,
                                    !.config_space_size = config_space_size]])

\* put_le32(ptr, v) on a host buffer
put_le32(buf, at, v) ==
  BufPut(buf, at,
         [o \in {i \in 0 .. 3 : (v \div (256 ^ i)) % 256 # 0} |->
            (v \div (256 ^ o)) % 256], 4)

\* the sector count in the config space; its high word is 0 for every file
\* the model opens
virtio_block_init(m, nb_sectors) ==
  LET m1 == virtio_init(m, 2, 8)
  IN [m1 EXCEPT !.dev.config_space = put_le32(put_le32(@, 0, nb_sectors), 4, 0)]

(***************************************************************************)
(* Virtqueue engine.  A handler is an operator from the machine m to the   *)
(* machine after it; the value a call returns is handed to the operator    *)
(* that models the rest of the function.                                   *)
(***************************************************************************)
HasFlag(flags, f) == (flags \div f) % 2 = 1

\* the 16-byte descriptor desc_idx of the queue's table
get_desc(mem, qs, desc_idx) ==
  LET a == AddrAdd(qs.desc_addr, desc_idx * SizeofDesc)
  IN [addr  |-> <<RdLE(mem, AddrAdd(a, 4), 4), RdLE(mem, a, 4)>>,
      len   |-> RdLE(mem, AddrAdd(a, 8), 4),
      flags |-> RdLE(mem, AddrAdd(a, 12), 2),
      next  |-> RdLE(mem, AddrAdd(a, 14), 2)]

\* An event of the observer log.
Ev(m, e) == [m EXCEPT !.ev = Append(@, e)]

\* Observer: what the driver finds in the used ring of queue_idx when
\* virtio_consume_desc returns; index is the used.idx found on entry.
Published(m, queue_idx, desc_idx, desc_len, index) ==
  LET qs == m.dev.queue[queue_idx]
      at == AddrAdd(qs.used_addr, 4 + (index % qs.num) * 8)
  IN Ev(m, [t |-> "pub", q |-> queue_idx, head |-> desc_idx, len |-> desc_len,
            old |-> index, num |-> qs.num,
            idx |-> RdLE(m.mem, AddrAdd(qs.used_addr, 2), 2),
            entry |-> <<RdLE(m.mem, at, 4), RdLE(m.mem, AddrAdd(at, 4), 4)>>,
            int_status |-> m.dev.int_status, irq |-> m.irq])

\* virtio_consume_desc up to its first store: used.idx is read and
\* incremented; [index, mem], the used.idx found and the memory after
consume_desc_idx(m, queue_idx) ==
  LET qs    == m.dev.queue[queue_idx]
      addr  == AddrAdd(qs.used_addr, 2)
      index == virtio_read16(m.mem, addr)
  IN [index |-> index, mem |-> virtio_write16(m.mem, addr, index + 1)]

\* the address of the ring entry virtio_consume_desc fills
consume_desc_slot(m, queue_idx, index) ==
  LET qs == m.dev.queue[queue_idx]
  IN AddrAdd(qs.used_addr, 4 + BitAnd(index, qs.num - 1) * 8)

\* virtio_consume_desc: the store of the entry's id
consume_desc_id(m, queue_idx, index, desc_idx) ==
  virtio_write32(m.mem, consume_desc_slot(m, queue_idx, index), desc_idx)

\* virtio_consume_desc: the store of the entry's len
consume_desc_len(m, queue_idx, index, desc_len) ==
  virtio_write32(m.mem, AddrAdd(consume_desc_slot(m, queue_idx, index), 4),
                 desc_len)

\* virtio_consume_desc: the interrupt
consume_desc_irq(m) == set_irq([m EXCEPT !.dev.int_status = BitOr(@, 1)], 1)

\* Faulty variant of virtio_consume_desc: the entry goes to the slot of the
\* new used.idx.
virtio_consume_desc_next_slot(m, queue_idx, desc_idx, desc_len) ==
  LET qs    == m.dev.queue[queue_idx]
      addr  == AddrAdd(qs.used_addr, 2)
      index == virtio_read16(m.mem, addr)
      mem1  == virtio_write16(m.mem, addr, index + 1)
      slot  == AddrAdd(qs.used_addr, 4 + BitAnd(index + 1, qs.num - 1) * 8)
      mem3  == virtio_write32(virtio_write32(mem1, slot, desc_idx),
                              AddrAdd(slot, 4), desc_len)
  IN Published(set_irq([m EXCEPT !.mem = mem3,
                                 !.dev.int_status = BitOr(@, 1)], 1),
               queue_idx, desc_idx, desc_len, index)

\* Faulty variant of virtio_consume_desc: the interrupt line is not raised.
virtio_consume_desc_no_irq(m, queue_idx, desc_idx, desc_len) ==
  LET qs    == m.dev.queue[queue_idx]
      addr  == AddrAdd(qs.used_addr, 2)
      index == virtio_read16(m.mem, addr)
      mem1  == virtio_write16(m.mem, addr, index + 1)
      slot  == AddrAdd(qs.used_addr, 4 + BitAnd(index, qs.num - 1) * 8)
      mem3  == virtio_write32(virtio_write32(mem1, slot, desc_idx),
                              AddrAdd(slot, 4), desc_len)
  IN Published([m EXCEPT !.mem = mem3, !.dev.int_status = BitOr(@, 1)],
               queue_idx, desc_idx, desc_len, index)

\* signal that the descriptor has been consumed
virtio_consume_desc(m, queue_idx, desc_idx, desc_len) ==
  LET qs    == m.dev.queue[queue_idx]
      addr  == AddrAdd(qs.used_addr, 2)
      index == virtio_read16(m.mem, addr)
      mem1  == virtio_write16(m.mem, addr, index + 1)
      slot  == AddrAdd(qs.used_addr, 4 + BitAnd(index, qs.num - 1) * 8)
      mem3  == virtio_write32(virtio_write32(mem1, slot, desc_idx),
                              AddrAdd(slot, 4), desc_len)
  IN Published(set_irq([m EXCEPT !.mem = mem3,
                                 !.dev.int_status = BitOr(@, 1)], 1),
               queue_idx, desc_idx, desc_len, index)

\* the largest int
INT_MAX == 2147483647

\* `size += desc.len' on an int size and a len below 2^31: the sum reduced
\* modulo 2^32 to an int
add_int(size, len) ==
  IF size > INT_MAX - len
  THEN ((size - INT_MAX) - 1) + ((len - INT_MAX) - 1)
  ELSE size + len

\* Faulty variant of the second loop of get_desc_rw_size: a descriptor
\* without WRITE is passed over.
RECURSIVE rw_write_loop_lenient(_, _, _, _, _, _)
rw_write_loop_lenient(mem, qs, desc, read_size, write_size, seen) ==
  LET size == IF HasFlag(desc.flags, VRING_DESC_F_WRITE)
              THEN add_int(write_size, desc.len) ELSE write_size
  IN IF ~HasFlag(desc.flags, VRING_DESC_F_NEXT)
     THEN [ret |-> 0, hang |-> FALSE, read_size |-> read_size,
           write_size |-> size]
     ELSE IF desc.next \in seen
     THEN [ret |-> 0, hang |-> TRUE, read_size |-> 0, write_size |-> 0]
     ELSE rw_write_loop_lenient(mem, qs, get_desc(mem, qs, desc.next),
                                read_size, size, seen \cup {desc.next})

\* Second loop of get_desc_rw_size: the device-writable descriptors.  `seen'
\* holds the descriptors this loop has visited: memory does not change during
\* the walk, so reaching one of them again is a loop that never ends.
RECURSIVE rw_write_loop(_, _, _, _, _, _)
rw_write_loop(mem, qs, desc, read_size, write_size, seen) ==
  IF ~HasFlag(desc.flags, VRING_DESC_F_WRITE)
  THEN [ret |-> -1, hang |-> FALSE, read_size |-> 0, write_size |-> 0]
  ELSE IF ~HasFlag(desc.flags, VRING_DESC_F_NEXT)
  THEN [ret |-> 0, hang |-> FALSE, read_size |-> read_size,
        write_size |-> add_int(write_size, desc.len)]
  ELSE IF desc.next \in seen
  THEN [ret |-> 0, hang |-> TRUE, read_size |-> 0, write_size |-> 0]
  ELSE rw_write_loop(mem, qs, get_desc(mem, qs, desc.next), read_size,
                     add_int(write_size, desc.len), seen \cup {desc.next})

\* First loop of get_desc_rw_size: the device-readable descriptors.
RECURSIVE rw_read_loop(_, _, _, _, _, _)
rw_read_loop(mem, qs, desc_idx, desc, read_size, seen) ==
  IF HasFlag(desc.flags, VRING_DESC_F_WRITE)
  THEN rw_write_loop(mem, qs, desc, read_size, 0, {desc_idx})
  ELSE IF ~HasFlag(desc.flags, VRING_DESC_F_NEXT)
  THEN [ret |-> 0, hang |-> FALSE,
        read_size |-> add_int(read_size, desc.len), write_size |-> 0]
  ELSE IF desc.next \in seen
  THEN [ret |-> 0, hang |-> TRUE, read_size |-> 0, write_size |-> 0]
  ELSE rw_read_loop(mem, qs, desc.next, get_desc(mem, qs, desc.next),
                    add_int(read_size, desc.len), seen \cup {desc.next})

get_desc_rw_size(mem, qs, desc_idx) ==
  rw_read_loop(mem, qs, desc_idx, get_desc(mem, qs, desc_idx), 0, {desc_idx})

\* Result of memcpy_to_from_queue: the return value, guest memory and the
\* host buffer after the copy; hang when the walk never ends.
MqRes(ret, hang, mem, buf) ==
  [ret |-> ret, hang |-> hang, mem |-> mem, buf |-> buf]

\* "find the first write descriptor"
RECURSIVE mq_first_write(_, _, _, _)
mq_first_write(mem, qs, desc, seen) ==
  IF HasFlag(desc.flags, VRING_DESC_F_WRITE)
  THEN [ret |-> 0, hang |-> FALSE, desc |-> desc]
  ELSE IF ~HasFlag(desc.flags, VRING_DESC_F_NEXT)
  THEN [ret |-> -1, hang |-> FALSE, desc |-> desc]
  ELSE IF desc.next \in seen
  THEN [ret |-> 0, hang |-> TRUE, desc |-> desc]
  ELSE mq_first_write(mem, qs, get_desc(mem, qs, desc.next),
                      seen \cup {desc.next})

\* "find the descriptor at offset"; seen holds the (descriptor, offset) pairs
\* visited, a repeated pair being a loop that never ends.
RECURSIVE mq_find_offset(_, _, _, _, _, _, _)
mq_find_offset(mem, qs, desc_idx, desc, offset, f_write, seen) ==
  IF HasFlag(desc.flags, VRING_DESC_F_WRITE) # f_write
  THEN [ret |-> -1, hang |-> FALSE, desc |-> desc, offset |-> offset]
  ELSE IF offset < desc.len
  THEN [ret |-> 0, hang |-> FALSE, desc |-> desc, offset |-> offset]
  ELSE IF ~HasFlag(desc.flags, VRING_DESC_F_NEXT)
  THEN [ret |-> -1, hang |-> FALSE, desc |-> desc, offset |-> offset]
  ELSE IF <<desc.next, offset - desc.len>> \in seen
  THEN [ret |-> 0, hang |-> TRUE, desc |-> desc, offset |-> offset]
  ELSE mq_find_offset(mem, qs, desc.next, get_desc(mem, qs, desc.next),
                      offset - desc.len, f_write,
                      seen \cup {<<desc.next, offset - desc.len>>})

\* The copy loop.  pos is how far buf has advanced; seen holds the
\* (descriptor, count) pairs at which the loop moved to a next descriptor.
RECURSIVE mq_copy(_, _, _, _, _, _, _, _, _, _)

\* the loop after the copy of l bytes left mem1 and buf1: count -= l,
\* offset += l, buf += l, and the move to the next descriptor
mq_copy_next(mem1, buf1, qs, desc, offset, count, pos, l, to_queue, f_write, seen) ==
  IF count - l = 0 THEN MqRes(0, FALSE, mem1, buf1)
  ELSE IF offset + l # desc.len
  THEN mq_copy(mem1, qs, desc, offset + l, count - l, pos + l, buf1, to_queue,
               f_write, seen)
  ELSE IF ~HasFlag(desc.flags, VRING_DESC_F_NEXT)
  THEN MqRes(-1, FALSE, mem1, buf1)
  ELSE IF HasFlag(get_desc(mem1, qs, desc.next).flags, VRING_DESC_F_WRITE)
            # f_write
  THEN MqRes(-1, FALSE, mem1, buf1)
  ELSE IF <<desc.next, count - l>> \in seen
  THEN MqRes(0, TRUE, mem1, buf1)
  ELSE mq_copy(mem1, qs, get_desc(mem1, qs, desc.next), 0, count - l, pos + l,
               buf1, to_queue, f_write, seen \cup {<<desc.next, count - l>>})

mq_copy(mem, qs, desc, offset, count, pos, buf, to_queue, f_write, seen) ==
  LET l  == min_int(count, desc.len - offset)
      at == AddrAdd(desc.addr, offset)
  IN mq_copy_next(
       IF to_queue THEN virtio_memcpy_to_ram(mem, at, buf, pos, l) ELSE mem,
       IF to_queue THEN buf
       ELSE BufPut(buf, pos, virtio_memcpy_from_ram(mem, at, l), l),
       qs, desc, offset, count, pos, l, to_queue, f_write, seen)

\* memcpy_to_from_queue from "find the descriptor at offset" on; at is what
\* that search found
mq_from_offset(mem, qs, buf, count, to_queue, at) ==
  IF at.hang \/ at.ret < 0 THEN MqRes(at.ret, at.hang, mem, buf)
  ELSE mq_copy(mem, qs, at.desc, at.offset, count, 0, buf, to_queue,
               to_queue, {})

\* memcpy_to_from_queue after "find the first write descriptor"
mq_from_first(mem, qs, buf, desc_idx, offset, count, to_queue, first) ==
  IF first.hang \/ first.ret < 0 THEN MqRes(first.ret, first.hang, mem, buf)
  ELSE mq_from_offset(mem, qs, buf, count, to_queue,
                      mq_find_offset(mem, qs, desc_idx, first.desc, offset,
                                     to_queue, {}))

memcpy_to_from_queue(mem, qs, buf, desc_idx, offset, count, to_queue) ==
  IF count = 0 THEN MqRes(0, FALSE, mem, buf)
  ELSE mq_from_first(mem, qs, buf, desc_idx, offset, count, to_queue,
         IF to_queue
         THEN mq_first_write(mem, qs, get_desc(mem, qs, desc_idx), {desc_idx})
         ELSE [ret |-> 0, hang |-> FALSE, desc |-> get_desc(mem, qs, desc_idx)])

memcpy_from_queue(mem, qs, buf, desc_idx, offset, count) ==
  memcpy_to_from_queue(mem, qs, buf, desc_idx, offset, count, FALSE)

memcpy_to_queue(mem, qs, desc_idx, offset, buf, count) ==
  memcpy_to_from_queue(mem, qs, buf, desc_idx, offset, count, TRUE)

(***************************************************************************)
(* File block backend (BlockDeviceFile)                                    *)
(*   bf.file, bf.fsize : the backing file's bytes (sparse) and its length  *)
(*   bf.sector_table   : the snapshot overlay, sector -> 512-byte buffer;  *)
(*                       a sector not in its domain is a NULL entry        *)
(***************************************************************************)
BF_MODE_RO == "ro"
BF_MODE_RW == "rw"
BF_MODE_SNAPSHOT == "snapshot"

\* fread(buf + at, 1, want, f) after fseek(f, off): the bytes the file has
\* there; a short read leaves the rest of buf as it was
fread(bf, buf, at, off, want) ==
  LET got == IF off >= bf.fsize THEN 0 ELSE min_int(want, bf.fsize - off)
  IN BufPut(buf, at, BufSlice(bf.file, off, got), got)

\* fwrite(buf + pos, 1, n, f) after fseek(f, off); the file grows when the
\* write ends past its end
fwrite(bf, off, buf, pos, n) ==
  IF n = 0 THEN bf
  ELSE [bf EXCEPT !.file = BufPut(@, off, BufSlice(buf, pos, n), n),
                  !.fsize = IF off + n > @ THEN off + n ELSE @]

\* Snapshot read loop.  Reading sector_table past its nb_sectors entries is
\* undefined: the pointer found there is indeterminate, NULL (g = 0) or not
\* (a sector of bytes g).
RECURSIVE bf_read_snapshot(_, _, _, _, _, _)
bf_read_snapshot(bf, sector_num, buf, i, n, g) ==
  IF i >= n THEN buf
  ELSE
    LET at == i * SECTOR_SIZE
        b1 == IF sector_num \in DOMAIN bf.sector_table
              THEN BufPut(buf, at, bf.sector_table[sector_num], SECTOR_SIZE)
              ELSE IF sector_num >= bf.nb_sectors /\ g # 0
              THEN BufPut(buf, at, malloc(SECTOR_SIZE, g), SECTOR_SIZE)
              ELSE fread(bf, buf, at, sector_num * SECTOR_SIZE, SECTOR_SIZE)
    IN bf_read_snapshot(bf, sector_num + 1, b1, i + 1, n, g)

\* bf_read_async always reading from the start of the file
bf_read_async_from_start(bf, sector_num, buf, n, g) ==
  [ret |-> 0, bf |-> bf, buf |-> fread(bf, buf, 0, 0, n * SECTOR_SIZE)]

\* bf_read_async as a backend that answers later
bf_read_async_later(bf, sector_num, buf, n, g) ==
  [ret |-> 1, bf |-> [bf EXCEPT !.pending = TRUE], buf |-> buf]

bf_read_async(bf, sector_num, buf, n, g) ==
  IF bf.mode = BF_MODE_SNAPSHOT
  THEN [ret |-> 0, bf |-> bf,
        buf |-> bf_read_snapshot(bf, sector_num, buf, 0, n, g)]
  ELSE [ret |-> 0, bf |-> bf,
        buf |-> fread(bf, buf, 0, sector_num * SECTOR_SIZE, n * SECTOR_SIZE)]

\* A uint64_t sector number is written as its two's-complement signed
\* value: 2^64 - j is -j, so that adding a small count wraps as the code's
\* addition does.  U64Gt(a, b) is the unsigned a > b.
U64Gt(a, b) == IF (a < 0) = (b < 0) THEN a > b ELSE a < 0

\* the snapshot write loop without buf += SECTOR_SIZE
RECURSIVE bf_write_snapshot_same_buf(_, _, _, _, _)
bf_write_snapshot_same_buf(bf, sector_num, buf, i, n) ==
  IF i >= n THEN bf
  ELSE
    LET sec == BufSlice(buf, 0, SECTOR_SIZE)
        t1  == [s \in DOMAIN bf.sector_table \cup {sector_num} |->
                  IF s = sector_num THEN sec ELSE bf.sector_table[s]]
        b1  == IF sector_num \in 0 .. (bf.nb_sectors - 1)
               THEN [bf EXCEPT !.sector_table = t1] ELSE bf
    IN bf_write_snapshot_same_buf(b1, sector_num + 1, buf, i + 1, n)

\* Snapshot write loop.  sector_table has nb_sectors entries; an index
\* outside them is a store outside the table, which is undefined and leaves
\* the entries of the table alone.
RECURSIVE bf_write_snapshot(_, _, _, _, _)
bf_write_snapshot(bf, sector_num, buf, i, n) ==
  IF i >= n THEN bf
  ELSE
    LET sec == BufSlice(buf, i * SECTOR_SIZE, SECTOR_SIZE)
        t1  == [s \in DOMAIN bf.sector_table \cup {sector_num} |->
                  IF s = sector_num THEN sec ELSE bf.sector_table[s]]
        b1  == IF sector_num \in 0 .. (bf.nb_sectors - 1)
               THEN [bf EXCEPT !.sector_table = t1] ELSE bf
    IN bf_write_snapshot(b1, sector_num + 1, buf, i + 1, n)

\* whether the snapshot write loop indexes sector_table outside its entries
snapshot_write_outside(bf, sector_num, n) ==
  \E i \in 0 .. (n - 1) : sector_num + i \notin 0 .. (bf.nb_sectors - 1)

\* bf_write_async writing the file whatever the mode it was opened in
bf_write_async_any_mode(bf, sector_num, buf, n) ==
  IF bf.mode = BF_MODE_SNAPSHOT
  THEN [ret |-> 0, ub |-> FALSE,
        bf |-> bf_write_snapshot(bf, sector_num, buf, 0, n)]
  ELSE [ret |-> 0, ub |-> FALSE,
        bf |-> fwrite(bf, sector_num * SECTOR_SIZE, buf, 0, n * SECTOR_SIZE)]

\* bf_write_async without the range check of the snapshot mode
bf_write_async_unchecked(bf, sector_num, buf, n) ==
  CASE bf.mode = BF_MODE_RO -> [ret |-> -1, bf |-> bf, ub |-> FALSE]
    [] bf.mode = BF_MODE_RW ->
         [ret |-> 0, ub |-> FALSE,
          bf |-> fwrite(bf, sector_num * SECTOR_SIZE, buf, 0, n * SECTOR_SIZE)]
    [] bf.mode = BF_MODE_SNAPSHOT ->
         [ret |-> 0, ub |-> snapshot_write_outside(bf, sector_num, n),
          bf |-> bf_write_snapshot(bf, sector_num, buf, 0, n)]

\* [ret, bf, ub]: the value returned, the backend after, and whether the
\* call had undefined behaviour on the way
bf_write_async(bf, sector_num, buf, n) ==
  CASE bf.mode = BF_MODE_RO -> [ret |-> -1, bf |-> bf, ub |-> FALSE]
    [] bf.mode = BF_MODE_RW ->
         [ret |-> 0, ub |-> FALSE,
          bf |-> fwrite(bf, sector_num * SECTOR_SIZE, buf, 0, n * SECTOR_SIZE)]
    [] bf.mode = BF_MODE_SNAPSHOT ->
         IF U64Gt(sector_num + n, bf.nb_sectors)
         THEN [ret |-> -1, bf |-> bf, ub |-> FALSE]
         ELSE [ret |-> 0, ub |-> snapshot_write_outside(bf, sector_num, n),
               bf |-> bf_write_snapshot(bf, sector_num, buf, 0, n)]

(***************************************************************************)
(* An asynchronous backend, as the BlockDevice interface allows: the call  *)
(* returns > 0, and the completion callback is called later with the       *)
(* result.  The transfer itself is the file backend's.                     *)
(***************************************************************************)
async_read(bf, sector_num, buf, n, g) ==
  LET r == bf_read_async(bf, sector_num, buf, n, g)
  IN [ret |-> 1, buf |-> r.buf, bf |-> [r.bf EXCEPT !.pending = TRUE]]

async_write(bf, sector_num, buf, n) ==
  LET r == bf_write_async(bf, sector_num, buf, n)
  IN IF r.ret < 0 THEN r
     ELSE [ret |-> 1, ub |-> r.ub, bf |-> [r.bf EXCEPT !.pending = TRUE]]

\* bs->read_async, bs->write_async
read_async(bf, sector_num, buf, n, g) ==
  IF bf.async THEN async_read(bf, sector_num, buf, n, g)
  ELSE bf_read_async(bf, sector_num, buf, n, g)

write_async(bf, sector_num, buf, n) ==
  IF bf.async THEN async_write(bf, sector_num, buf, n)
  ELSE bf_write_async(bf, sector_num, buf, n)

(***************************************************************************)
(* Block front end (VIRTIOBlockDevice)                                     *)
(*   m.halt : "no" while the simulator runs; "hang" once a handler walks   *)
(*            a chain forever, "abort" once it has called abort(), "crash" *)
(*            once a store outside an array has stopped it                 *)
(*   m.heap : the byte that indeterminate host memory holds in this call   *)
(***************************************************************************)
Halt(m, how) == [m EXCEPT !.halt = how]

OneByte(v) == IF v = 0 THEN EmptyBuf ELSE [o \in {0} |-> v]

\* virtio_block_req_end after memcpy_to_queue returned r (its value is not
\* looked at): the descriptor is consumed
req_end_consume(m, r, queue_idx, desc_idx, desc_len) ==
  IF r.hang THEN Halt([m EXCEPT !.mem = r.mem], "hang")
  ELSE virtio_consume_desc([m EXCEPT !.mem = r.mem], queue_idx, desc_idx,
                           desc_len)

virtio_block_req_end(m, ret) ==
  LET req       == m.dev.req
      queue_idx == req.queue_idx
      desc_idx  == req.desc_idx
      qs        == m.dev.queue[queue_idx]
      status    == IF ret < 0 THEN VIRTIO_BLK_S_IOERR ELSE VIRTIO_BLK_S_OK
  IN CASE req.type = VIRTIO_BLK_T_IN ->
            LET write_size == req.write_size
                \* buf[write_size - 1] = status; with write_size = 0 the
                \* store lands before the buffer
                buf == IF write_size >= 1
                       THEN BufPut(req.buf, write_size - 1, OneByte(status), 1)
                       ELSE req.buf
                m0  == IF write_size >= 1 THEN m
                       ELSE Ev(m, [t |-> "oob", q |-> queue_idx,
                                   head |-> desc_idx])
            IN req_end_consume(
                 [m0 EXCEPT !.dev.req.buf = EmptyBuf],
                 memcpy_to_queue(m.mem, qs, desc_idx, 0, buf, write_size),
                 queue_idx, desc_idx, write_size)
       [] req.type = VIRTIO_BLK_T_OUT ->
            req_end_consume(
              m, memcpy_to_queue(m.mem, qs, desc_idx, 0, OneByte(status), 1),
              queue_idx, desc_idx, 1)
       [] OTHER -> Halt(m, "abort")

\* little-endian value of n bytes of a host buffer
RECURSIVE BufLE(_, _, _)
BufLE(buf, o, n) ==
  IF n = 0 THEN 0 ELSE Rd8(buf, o) + 256 * BufLE(buf, o + 1, n - 1)

\* The request header read from the chain (BlockRequestHeader)
HeaderOf(buf) ==
  [type |-> BufLE(buf, 0, 4), ioprio |-> BufLE(buf, 4, 4),
   sector_num |-> BufLE(buf, 8, 8)]

\* virtio_block_recv_request once the backend has returned ret for the
\* request: in progress, or ended at once.  [ret, m] are the value returned
\* to the notify loop and the machine after.
recv_started(m, ret) ==
  IF ret > 0 THEN [ret |-> 0, m |-> [m EXCEPT !.dev.req_in_progress = TRUE]]
  ELSE [ret |-> 0, m |-> virtio_block_req_end(m, ret)]

\* case VIRTIO_BLK_T_IN, r being what read_async returned
recv_in(m, write_size, r) ==
  recv_started([m EXCEPT !.dev.req.buf = r.buf,
                         !.dev.req.write_size = write_size,
                         !.bf = r.bf], r.ret)

\* case VIRTIO_BLK_T_OUT, r being what write_async returned
recv_out_written(m, r) ==
  IF r.ub /\ m.heap # 0 THEN [ret |-> 0, m |-> Halt(m, "crash")]
  ELSE recv_started([m EXCEPT !.bf = r.bf], r.ret)

\* case VIRTIO_BLK_T_OUT, dr being what memcpy_from_queue returned for the
\* len bytes of data
recv_out(m, sector_num, len, dr) ==
  IF dr.hang THEN [ret |-> 0, m |-> Halt(m, "hang")]
  ELSE recv_out_written(m, write_async(m.bf, sector_num, dr.buf,
                                       CDiv(len, SECTOR_SIZE)))

\* switch(h.type), h being the header read
recv_switch(m, queue_idx, desc_idx, read_size, write_size, h) ==
  LET m1 == [m EXCEPT !.dev.req.type = h.type,
                      !.dev.req.queue_idx = queue_idx,
                      !.dev.req.desc_idx = desc_idx]
  IN CASE h.type = VIRTIO_BLK_T_IN ->
            recv_in(m1, write_size,
                    read_async(m.bf, h.sector_num, malloc(write_size, m.heap),
                               CDiv(write_size - 1, SECTOR_SIZE), m.heap))
       [] h.type = VIRTIO_BLK_T_OUT ->
            IF write_size < 1 THEN [ret |-> 0, m |-> Halt(m1, "abort")]
            ELSE recv_out(m1, h.sector_num, read_size - SizeofHeader,
                          memcpy_from_queue(
                            m.mem, m.dev.queue[queue_idx],
                            malloc(read_size - SizeofHeader, m.heap),
                            desc_idx, SizeofHeader, read_size - SizeofHeader))
       [] OTHER -> [ret |-> 0, m |-> m1]

\* virtio_block_recv_request after memcpy_from_queue returned hr for the
\* header
recv_header(m, queue_idx, desc_idx, read_size, write_size, hr) ==
  IF hr.hang THEN [ret |-> 0, m |-> Halt(m, "hang")]
  ELSE IF hr.ret < 0 THEN [ret |-> 0, m |-> m]
  ELSE recv_switch(m, queue_idx, desc_idx, read_size, write_size,
                   HeaderOf(hr.buf))

\* virtio_block_recv_request without the test of req_in_progress
virtio_block_recv_request_while_busy(m, queue_idx, desc_idx, read_size, write_size) ==
  recv_header(Ev(m, [t |-> "recv", q |-> queue_idx, head |-> desc_idx]),
              queue_idx, desc_idx, read_size, write_size,
              memcpy_from_queue(m.mem, m.dev.queue[queue_idx],
                                malloc(SizeofHeader, m.heap),
                                desc_idx, 0, SizeofHeader))

virtio_block_recv_request(m, queue_idx, desc_idx, read_size, write_size) ==
  IF m.dev.req_in_progress
  THEN [ret |-> -1,
        m |-> Ev(m, [t |-> "recv", q |-> queue_idx, head |-> desc_idx])]
  ELSE recv_header(Ev(m, [t |-> "recv", q |-> queue_idx, head |-> desc_idx]),
                   queue_idx, desc_idx, read_size, write_size,
                   memcpy_from_queue(m.mem, m.dev.queue[queue_idx],
                                     malloc(SizeofHeader, m.heap),
                                     desc_idx, 0, SizeofHeader))

(***************************************************************************)
(* The notify loop                                                         *)
(***************************************************************************)
RECURSIVE notify_loop(_, _, _)

\* Faulty variant of the end of the loop body: the loop is left after the
\* first head.
notify_advance_once(queue_idx, avail_idx, desc_idx, r) ==
  IF r.m.halt # "no" \/ r.ret < 0 THEN r.m
  ELSE Ev([r.m EXCEPT !.dev.queue[queue_idx].last_avail_idx = (@ + 1) % W16],
          [t |-> "adv", q |-> queue_idx, head |-> desc_idx])

\* Faulty variant of the end of the loop body: a push-back advances too.
notify_advance_always(queue_idx, avail_idx, desc_idx, r) ==
  IF r.m.halt # "no" THEN r.m
  ELSE IF r.ret < 0
  THEN [r.m EXCEPT !.dev.queue[queue_idx].last_avail_idx = (@ + 1) % W16]
  ELSE notify_loop(
         Ev([r.m EXCEPT !.dev.queue[queue_idx].last_avail_idx = (@ + 1) % W16],
            [t |-> "adv", q |-> queue_idx, head |-> desc_idx]),
         queue_idx, avail_idx)

\* the end of the loop body, r being what device_recv returned (ret 0 when
\* it was not called): break, or qs->last_avail_idx++ and the next turn
notify_advance(queue_idx, avail_idx, desc_idx, r) ==
  IF r.m.halt # "no" \/ r.ret < 0 THEN r.m
  ELSE notify_loop(
         Ev([r.m EXCEPT !.dev.queue[queue_idx].last_avail_idx = (@ + 1) % W16],
            [t |-> "adv", q |-> queue_idx, head |-> desc_idx]),
         queue_idx, avail_idx)

\* the loop body after get_desc_rw_size returned rw
notify_recv(m, queue_idx, avail_idx, desc_idx, rw) ==
  IF rw.hang THEN Halt(m, "hang")
  ELSE notify_advance(queue_idx, avail_idx, desc_idx,
         IF rw.ret = 0
         THEN virtio_block_recv_request(m, queue_idx, desc_idx, rw.read_size,
                                        rw.write_size)
         ELSE [ret |-> 0, m |-> m])

\* the loop body for the head desc_idx read from the available ring
notify_head(m, queue_idx, avail_idx, desc_idx) ==
  notify_recv(m, queue_idx, avail_idx, desc_idx,
              get_desc_rw_size(m.mem, m.dev.queue[queue_idx], desc_idx))

notify_loop(m, queue_idx, avail_idx) ==
  LET qs == m.dev.queue[queue_idx]
  IN IF m.halt # "no" \/ qs.last_avail_idx = avail_idx THEN m
     ELSE notify_head(m, queue_idx, avail_idx,
            virtio_read16(m.mem,
              AddrAdd(qs.avail_addr,
                      4 + BitAnd(qs.last_avail_idx, qs.num - 1) * 2)))

\* Faulty variant of queue_notify: manual_recv is not looked at.
queue_notify_ignores_manual(m, queue_idx) ==
  notify_loop(m, queue_idx,
              virtio_read16(m.mem, AddrAdd(m.dev.queue[queue_idx].avail_addr, 2)))

queue_notify(m, queue_idx) ==
  LET qs == m.dev.queue[queue_idx]
  IN IF qs.manual_recv THEN m
     ELSE notify_loop(m, queue_idx,
                      virtio_read16(m.mem, AddrAdd(qs.avail_addr, 2)))

\* virtio_block_req_cb without the queue_notify that handles the next
\* requests
req_cb_next_no_notify(m) ==
  IF m.halt # "no" THEN m ELSE [m EXCEPT !.dev.req_in_progress = FALSE]

\* virtio_block_req_cb after virtio_block_req_end returned
req_cb_next(m) ==
  IF m.halt # "no" THEN m
  ELSE queue_notify([m EXCEPT !.dev.req_in_progress = FALSE],
                    m.dev.req.queue_idx)

virtio_block_req_cb(m, ret) == req_cb_next(virtio_block_req_end(m, ret))

(***************************************************************************)
(* MMIO register file                                                      *)
(***************************************************************************)
\* virtio_config_write with size_log2 = 2; the block device has no
\* config_write callback
virtio_config_write(m, offset, val) ==
  IF offset < m.dev.config_space_size - 3
  THEN [m EXCEPT !.dev.config_space = put_le32(@, offset, val)]
  ELSE m

\* Faulty variant of the QUEUE_SEL case: the bound is off by one.
mmio_write_queue_sel_le(m, val) ==
  IF val <= MAX_QUEUE THEN [m EXCEPT !.dev.queue_sel = val] ELSE m

\* case VIRTIO_MMIO_QUEUE_SEL
mmio_write_queue_sel(m, val) ==
  IF val < MAX_QUEUE THEN [m EXCEPT !.dev.queue_sel = val] ELSE m

\* Faulty variant of the QUEUE_NUM case: every value above 0 is accepted.
mmio_write_queue_num_any(m, val) ==
  IF val > 0 THEN [m EXCEPT !.dev.queue[m.dev.queue_sel].num = val] ELSE m

\* case VIRTIO_MMIO_QUEUE_NUM: (val & (val - 1)) == 0 && val > 0
mmio_write_queue_num(m, val) ==
  IF val > 0 /\ BitAnd(val, val - 1) = 0
  THEN [m EXCEPT !.dev.queue[m.dev.queue_sel].num = val]
  ELSE m

\* case VIRTIO_MMIO_STATUS
mmio_write_status(m, val) ==
  LET m1 == [m EXCEPT !.dev.status = val]
  IN IF val = 0 THEN virtio_reset(set_irq(m1, 0)) ELSE m1

\* case VIRTIO_MMIO_QUEUE_READY
mmio_write_queue_ready(m, val) ==
  [m EXCEPT !.dev.queue[m.dev.queue_sel].ready = val % 2]

\* case VIRTIO_MMIO_QUEUE_NOTIFY
mmio_write_queue_notify(m, val) ==
  IF val < MAX_QUEUE THEN queue_notify(m, val) ELSE m

\* Faulty variant of the INTERRUPT_ACK case: the line is lowered whatever
\* int_status is left.
mmio_write_interrupt_ack_lowers(m, val) ==
  set_irq([m EXCEPT !.dev.int_status = BitAndNot(@, val)], 0)

\* Faulty variant of the INTERRUPT_ACK case: every bit is cleared.
mmio_write_interrupt_ack_all(m, val) ==
  set_irq([m EXCEPT !.dev.int_status = 0], 0)

\* case VIRTIO_MMIO_INTERRUPT_ACK
mmio_write_interrupt_ack(m, val) ==
  LET m1 == [m EXCEPT !.dev.int_status = BitAndNot(@, val)]
  IN IF m1.dev.int_status = 0 THEN set_irq(m1, 0) ELSE m1

\* virtio_mmio_write with size_log2 = 2, the only width its callers pass
virtio_mmio_write(m, offset, val) ==
  LET sel == m.dev.queue_sel
  IN IF offset >= VIRTIO_MMIO_CONFIG
     THEN virtio_config_write(m, offset - VIRTIO_MMIO_CONFIG, val)
     ELSE CASE offset = VIRTIO_MMIO_DEVICE_FEATURES_SEL ->
                 [m EXCEPT !.dev.device_features_sel = val]
            [] offset = VIRTIO_MMIO_QUEUE_SEL -> mmio_write_queue_sel(m, val)
            [] offset = VIRTIO_MMIO_QUEUE_NUM -> mmio_write_queue_num(m, val)
            [] offset = VIRTIO_MMIO_QUEUE_DESC_LOW ->
                 [m EXCEPT !.dev.queue[sel].desc_addr = set_low32(@, val)]
            [] offset = VIRTIO_MMIO_QUEUE_AVAIL_LOW ->
                 [m EXCEPT !.dev.queue[sel].avail_addr = set_low32(@, val)]
            [] offset = VIRTIO_MMIO_QUEUE_USED_LOW ->
                 [m EXCEPT !.dev.queue[sel].used_addr = set_low32(@, val)]
            [] offset = VIRTIO_MMIO_QUEUE_DESC_HIGH ->
                 [m EXCEPT !.dev.queue[sel].desc_addr = set_high32(@, val)]
            [] offset = VIRTIO_MMIO_QUEUE_AVAIL_HIGH ->
                 [m EXCEPT !.dev.queue[sel].avail_addr = set_high32(@, val)]
            [] offset = VIRTIO_MMIO_QUEUE_USED_HIGH ->
                 [m EXCEPT !.dev.queue[sel].used_addr = set_high32(@, val)]
            [] offset = VIRTIO_MMIO_STATUS -> mmio_write_status(m, val)
            [] offset = VIRTIO_MMIO_QUEUE_READY -> mmio_write_queue_ready(m, val)
            [] offset = VIRTIO_MMIO_QUEUE_NOTIFY -> mmio_write_queue_notify(m, val)
            [] offset = VIRTIO_MMIO_INTERRUPT_ACK ->
                 mmio_write_interrupt_ack(m, val)
            [] OTHER -> m

\* Faulty variant of the DEVICE_FEATURES case: every selector above 0 falls
\* into case 1.
mmio_read_device_features_high(m) ==
  IF m.dev.device_features_sel = 0 THEN m.dev.device_features ELSE 1

\* case VIRTIO_MMIO_DEVICE_FEATURES: switch(s->device_features_sel)
mmio_read_device_features(m) ==
  CASE m.dev.device_features_sel = 0 -> m.dev.device_features
    [] m.dev.device_features_sel = 1 -> 1
    [] OTHER -> 0

\* virtio_mmio_read with size_log2 = 2, below VIRTIO_MMIO_CONFIG
virtio_mmio_read(m, offset) ==
  LET qs == m.dev.queue[m.dev.queue_sel]
  IN CASE offset = VIRTIO_MMIO_DEVICE_FEATURES -> mmio_read_device_features(m)
       [] offset = VIRTIO_MMIO_DEVICE_FEATURES_SEL -> m.dev.device_features_sel
       [] offset = VIRTIO_MMIO_QUEUE_SEL -> m.dev.queue_sel
       [] offset = VIRTIO_MMIO_QUEUE_NUM_MAX -> MAX_QUEUE_NUM
       [] offset = VIRTIO_MMIO_QUEUE_NUM -> qs.num
       [] offset = VIRTIO_MMIO_QUEUE_DESC_LOW -> qs.desc_addr[2]
       [] offset = VIRTIO_MMIO_QUEUE_AVAIL_LOW -> qs.avail_addr[2]
       [] offset = VIRTIO_MMIO_QUEUE_USED_LOW -> qs.used_addr[2]
       [] offset = VIRTIO_MMIO_QUEUE_DESC_HIGH -> qs.desc_addr[1]
       [] offset = VIRTIO_MMIO_QUEUE_AVAIL_HIGH -> qs.avail_addr[1]
       [] offset = VIRTIO_MMIO_QUEUE_USED_HIGH -> qs.used_addr[1]
       [] offset = VIRTIO_MMIO_QUEUE_READY -> qs.ready
       [] offset = VIRTIO_MMIO_INTERRUPT_STATUS -> m.dev.int_status
       [] offset = VIRTIO_MMIO_STATUS -> m.dev.status
       [] OTHER -> 0

virtio_config_change_notify(m) ==
  set_irq([m EXCEPT !.dev.int_status = BitOr(@, 2)], 1)

\* the second virtio_mmio_write of an 8-byte store
store_high(m, addr, hi) ==
  IF m.halt # "no" THEN m ELSE virtio_mmio_write(m, addr + 4, hi)

\* virtioblk_t::store with a store of width 1 or 2 written to the register
virtioblk_store_narrow(m, addr, len, lo, hi) ==
  IF len = 8
  THEN [ok |-> TRUE, m |-> store_high(virtio_mmio_write(m, addr, lo), addr, hi)]
  ELSE [ok |-> len \in {1, 2, 4},
        m |-> IF len \in {1, 2, 4} THEN virtio_mmio_write(m, addr, lo) ELSE m]

\* virtioblk_t::store of the value lo (len 4) or hi:lo (len 8) at addr:
\* whether the store is accepted, and the machine after
virtioblk_store(m, addr, len, lo, hi) ==
  IF len = 4 \/ len = 8
  THEN [ok |-> TRUE,
        m |-> IF len = 4 THEN virtio_mmio_write(m, addr, lo)
              ELSE store_high(virtio_mmio_write(m, addr, lo), addr, hi)]
  ELSE [ok |-> len = 1 \/ len = 2, m |-> m]

\* virtioblk_t::load of len bytes at addr: whether the load is accepted and
\* the value read, as <<high, low>> 32-bit halves; the device is not changed
virtioblk_load(m, addr, len) ==
  IF len = 4 THEN [ok |-> TRUE, val |-> <<0, virtio_mmio_read(m, addr)>>]
  ELSE IF len = 8
  THEN [ok |-> TRUE,
        val |-> <<virtio_mmio_read(m, addr + 4), virtio_mmio_read(m, addr)>>]
  ELSE [ok |-> len = 1 \/ len = 2, val |-> <<0, 0>>]

(***************************************************************************)
(* SiFive UART (sifive_uart_t)                                             *)
(*   u.rx_fifo : the bytes received and not yet read, oldest first         *)
(*   u.txctrl, u.rxctrl, u.ie, u.div : registers                           *)
(*   u.irq     : level of the UART's interrupt line                        *)
(* A 32-bit value read is the pair <<bit 31, bits 30..0>>.                 *)
(***************************************************************************)
UART_TXFIFO == 0
UART_RXFIFO == 4
UART_TXCTRL == 8
UART_RXCTRL == 12
UART_IE == 16
UART_IP == 20
UART_DIV == 24
UART_RX_FIFO_SIZE == 8
UART_IP_TXWM == 1
UART_IP_RXWM == 2

\* the size of the UART's window
UART_WINDOW == 4096

sifive_uart_init ==
  [rx_fifo |-> << >>, txctrl |-> 0, rxctrl |-> 0, ie |-> 0, div |-> 0,
   irq |-> 0]

\* the pending bits: transmit always, receive while the FIFO holds a byte
read_ip(u) == UART_IP_TXWM + (IF u.rx_fifo # << >> THEN UART_IP_RXWM ELSE 0)

\* update_interrupts whatever the FIFO holds looking only at IE
update_interrupts_ie_only(u) == [u EXCEPT !.irq = IF u.ie # 0 THEN 1 ELSE 0]

\* the interrupt line is (IE & IP) != 0
update_interrupts(u) ==
  [u EXCEPT !.irq = IF BitAnd(u.ie, read_ip(u)) # 0 THEN 1 ELSE 0]

\* read_rxfifo taking the newest byte
read_rxfifo_newest(u) ==
  IF u.rx_fifo = << >> THEN [val |-> <<1, 0>>, u |-> u]
  ELSE [val |-> <<0, u.rx_fifo[Len(u.rx_fifo)]>>,
        u |-> update_interrupts(
                [u EXCEPT !.rx_fifo = SubSeq(@, 1, Len(@) - 1)])]

\* read_rxfifo: 0x80000000 when the FIFO is empty; otherwise the oldest
\* byte, removed, and the interrupt line recomputed
read_rxfifo(u) ==
  IF u.rx_fifo = << >> THEN [val |-> <<1, 0>>, u |-> u]
  ELSE [val |-> <<0, Head(u.rx_fifo)>>,
        u |-> update_interrupts([u EXCEPT !.rx_fifo = Tail(@)])]

\* memcpy(bytes, &r, len): the low len bytes of the 32-bit value r
LowBytes(r, len) ==
  IF len >= 4 THEN r ELSE <<0, r[2] % (256 ^ len)>>

\* memcpy(&reg, bytes, len): the low len bytes of reg replaced by val's
SetLowBytes(reg, val, len) ==
  IF len >= 4 THEN val
  ELSE (reg \div (256 ^ len)) * (256 ^ len) + (val % (256 ^ len))

\* sifive_uart_t::load after the register was read as r
uart_loaded(r, len) == [ok |-> TRUE, val |-> LowBytes(r.val, len), u |-> r.u, halt |-> "no"]

\* sifive_uart_t::load refusing only what lies outside the window
sifive_uart_load_any_len(u, addr, len) ==
  IF addr >= UART_WINDOW
  THEN [ok |-> FALSE, val |-> <<0, 0>>, u |-> u, halt |-> "no"]
  ELSE CASE addr = UART_TXFIFO -> uart_loaded([val |-> <<0, 0>>, u |-> u], len)
         [] addr = UART_RXFIFO -> uart_loaded(read_rxfifo(u), len)
         [] addr = UART_TXCTRL -> uart_loaded([val |-> <<0, u.txctrl>>, u |-> u], len)
         [] addr = UART_RXCTRL -> uart_loaded([val |-> <<0, u.rxctrl>>, u |-> u], len)
         [] addr = UART_IE -> uart_loaded([val |-> <<0, u.ie>>, u |-> u], len)
         [] addr = UART_IP -> uart_loaded([val |-> <<0, read_ip(u)>>, u |-> u], len)
         [] addr = UART_DIV -> uart_loaded([val |-> <<0, u.div>>, u |-> u], len)
         [] OTHER -> [ok |-> FALSE, val |-> <<0, 0>>, u |-> u, halt |-> "abort"]

\* sifive_uart_t::load: [ok, val, u, halt], the value returned, the bytes
\* read, the UART after, and "abort" when the simulator was aborted
sifive_uart_load(u, addr, len) ==
  IF addr >= UART_WINDOW \/ len > 4
  THEN [ok |-> FALSE, val |-> <<0, 0>>, u |-> u, halt |-> "no"]
  ELSE CASE addr = UART_TXFIFO -> uart_loaded([val |-> <<0, 0>>, u |-> u], len)
         [] addr = UART_RXFIFO -> uart_loaded(read_rxfifo(u), len)
         [] addr = UART_TXCTRL -> uart_loaded([val |-> <<0, u.txctrl>>, u |-> u], len)
         [] addr = UART_RXCTRL -> uart_loaded([val |-> <<0, u.rxctrl>>, u |-> u], len)
         [] addr = UART_IE -> uart_loaded([val |-> <<0, u.ie>>, u |-> u], len)
         [] addr = UART_IP -> uart_loaded([val |-> <<0, read_ip(u)>>, u |-> u], len)
         [] addr = UART_DIV -> uart_loaded([val |-> <<0, u.div>>, u |-> u], len)
         [] OTHER -> [ok |-> FALSE, val |-> <<0, 0>>, u |-> u, halt |-> "abort"]

\* sifive_uart_t::store of the len low bytes of val: [ok, u, halt]
sifive_uart_store(u, addr, len, val) ==
  IF addr >= UART_WINDOW \/ len > 4
  THEN [ok |-> FALSE, u |-> u, halt |-> "no"]
  ELSE CASE addr = UART_TXFIFO -> [ok |-> TRUE, u |-> u, halt |-> "no"]
         [] addr = UART_TXCTRL ->
              [ok |-> TRUE, halt |-> "no",
               u |-> [u EXCEPT !.txctrl = SetLowBytes(@, val, len)]]
         [] addr = UART_RXCTRL ->
              [ok |-> TRUE, halt |-> "no",
               u |-> [u EXCEPT !.rxctrl = SetLowBytes(@, val, len)]]
         [] addr = UART_IE ->
              [ok |-> TRUE, halt |-> "no",
               u |-> update_interrupts(
                       [u EXCEPT !.ie = SetLowBytes(@, val, len)])]
         [] addr = UART_DIV ->
              [ok |-> TRUE, halt |-> "no",
               u |-> [u EXCEPT !.div = SetLowBytes(@, val, len)]]
         [] OTHER -> [ok |-> FALSE, u |-> u, halt |-> "abort"]

\* sifive_uart_t::tick without the test of the FIFO's size
sifive_uart_tick_unbounded(u, rc) ==
  IF rc < 0 THEN [read |-> TRUE, u |-> u]
  ELSE [read |-> TRUE,
        u |-> update_interrupts(
                [u EXCEPT !.rx_fifo = Append(@, rc % 256)])]

\* sifive_uart_t::tick, rc being what canonical_terminal_t::read() returns
\* if it is called: [read, u], whether it was called, and the UART after
sifive_uart_tick(u, rc) ==
  IF Len(u.rx_fifo) >= UART_RX_FIFO_SIZE THEN [read |-> FALSE, u |-> u]
  ELSE IF rc < 0 THEN [read |-> TRUE, u |-> u]
  ELSE [read |-> TRUE,
        u |-> update_interrupts(
                [u EXCEPT !.rx_fifo = Append(@, rc % 256)])]

(***************************************************************************)
(* The machine                                                             *)
(***************************************************************************)
VARIABLES
  dev,    \* VIRTIOBlockDevice
  mem,    \* guest RAM
  irq,    \* level of the device's interrupt line
  bf,     \* the block backend
  halt,   \* "no", or how the simulator stopped
  ev,     \* observer: the effects of the handler that ran last
  last,   \* observer: the operation that ran last
  npub,   \* observer: the used-ring publications made so far
  uart    \* sifive_uart_t

vars == <<dev, mem, irq, bf, halt, ev, last, npub, uart>>

\* Bounds of the model: the chains the driver submits, the publications
\* followed, the sectors of the backing file
MaxHeads == 2
MaxPub == 3
NbSectors == 2

\* the current machine, with g the indeterminate heap byte of this call
Cur(g) ==
  [dev |-> dev, mem |-> mem, irq |-> irq, bf |-> bf, halt |-> halt,
   ev |-> << >>, heap |-> g]

Commit(m, op) ==
  /\ dev' = m.dev
  /\ mem' = m.mem
  /\ irq' = m.irq
  /\ bf' = m.bf
  /\ halt' = m.halt
  /\ ev' = m.ev
  /\ last' = op
  /\ npub' = npub + Cardinality({k \in DOMAIN m.ev : m.ev[k].t = "pub"})
  /\ uart' = uart

\* values a byte of uninitialised host memory takes
HeapBytes == {0, 90}

(***************************************************************************)
(* The backing file: sector k starts with byte 17 + k and ends with byte   *)
(* 33 + k, zero between.                                                   *)
(***************************************************************************)
FileImage(n) ==
  [o \in {k * SECTOR_SIZE : k \in 0 .. (n - 1)}
         \cup {k * SECTOR_SIZE + (SECTOR_SIZE - 1) : k \in 0 .. (n - 1)} |->
     IF o % SECTOR_SIZE = 0 THEN 17 + (o \div SECTOR_SIZE)
     ELSE 33 + (o \div SECTOR_SIZE)]

\* block_device_init: the file opened in the given mode
block_device_init(mode, async) ==
  [mode |-> mode, nb_sectors |-> NbSectors, fsize |-> NbSectors * SECTOR_SIZE,
   file |-> FileImage(NbSectors), sector_table |-> << >>,
   async |-> async, pending |-> FALSE]

\* the machine after construction with one of the backends of B, each a
\* pair <<mode, asynchronous>>
InitWith(B) ==
  \E b \in B :
    LET bs == block_device_init(b[1], b[2])
        m  == virtio_block_init(
                [dev |-> ZeroDev, mem |-> << >>, irq |-> 0, bf |-> bs,
                 halt |-> "no", ev |-> << >>, heap |-> 0], bs.nb_sectors)
    IN /\ dev = m.dev
       /\ mem = m.mem
       /\ irq = m.irq
       /\ bf = m.bf
       /\ halt = "no"
       /\ ev = << >>
       /\ last = [op |-> "init"]
       /\ npub = 0
       /\ uart = sifive_uart_init

\* the file backend, read-write or read-only
Backends == {<<BF_MODE_RW, FALSE>>, <<BF_MODE_RO, FALSE>>}

Init == InitWith(Backends)

(***************************************************************************)
(* The guest driver.  It keeps its rings and buffers at fixed addresses:   *)
(*   descriptor table DescLo, available ring AvailLo, used ring UsedLo,    *)
(*   request i's buffers at BufLo(i): header, 512 bytes of data, status.   *)
(***************************************************************************)
DescLo == 16 * 256
AvailLo == 32 * 256
UsedLo == 48 * 256
BufLo(i) == 64 * 256 + i * 1024
G(lo) == <<0, lo>>

GuestAvailIdx == virtio_read16(mem, G(AvailLo + 2))

\* descriptor idx of the driver's table
WrDesc(mm, idx, addr, len, flags, next) ==
  LET a  == G(DescLo + idx * SizeofDesc)
      m1 == WrLE(WrLE(mm, a, 4, addr), AddrAdd(a, 4), 4, 0)
      m2 == WrLE(m1, AddrAdd(a, 8), 4, len)
      m3 == WrLE(m2, AddrAdd(a, 12), 2, flags)
  IN WrLE(m3, AddrAdd(a, 14), 2, next)

\* request header {type, ioprio = 0, sector} at addr
WrHeader(mm, addr, type, sector) ==
  WrLE(WrLE(WrLE(WrLE(mm, G(addr), 4, type), G(addr + 4), 4, 0),
            G(addr + 8), 4, sector), G(addr + 12), 4, 0)

\* the chains the driver submits: a request i puts its head in descriptor
\* 3 * i
ChainKinds ==
  {"in", "in0", "in1", "in2", "inx", "out", "outx", "unsupp", "flush",
   "flush5", "rwr", "nohdr", "self", "back"}

\* where request i keeps a data buffer of more than one sector
BigLo(i) == 160 * 256 + i * 2048

F_N == VRING_DESC_F_NEXT
F_W == VRING_DESC_F_WRITE

WrChain(mm, i, kind) ==
  LET h   == 3 * i
      hdr == BufLo(i)
      dat == BufLo(i) + SizeofHeader
      st  == dat + SECTOR_SIZE
      \* the status byte starts as 255 so that the device's store shows
      m0  == Wr8(mm, G(st), 255)
  IN CASE kind = "in" ->
            \* read sector 0: header, 512 writable bytes, status
            WrDesc(WrDesc(WrDesc(WrHeader(m0, hdr, VIRTIO_BLK_T_IN, 0),
              h, hdr, SizeofHeader, F_N, h + 1),
              h + 1, dat, SECTOR_SIZE, F_N + F_W, h + 2),
              h + 2, st, 1, F_W, 0)
       [] kind = "in0" ->
            \* a read whose chain is the header alone: nothing writable
            WrDesc(WrHeader(m0, hdr, VIRTIO_BLK_T_IN, 0),
                   h, hdr, SizeofHeader, 0, 0)
       [] kind = "in1" ->
            \* read sector 1: header, 512 writable bytes, status
            WrDesc(WrDesc(WrDesc(WrHeader(m0, hdr, VIRTIO_BLK_T_IN, 1),
              h, hdr, SizeofHeader, F_N, h + 1),
              h + 1, dat, SECTOR_SIZE, F_N + F_W, h + 2),
              h + 2, st, 1, F_W, 0)
       [] kind = "in2" ->
            \* read sectors 0 and 1: header, 1024 writable bytes, status
            WrDesc(WrDesc(WrDesc(WrHeader(m0, hdr, VIRTIO_BLK_T_IN, 0),
              h, hdr, SizeofHeader, F_N, h + 1),
              h + 1, BigLo(i), 2 * SECTOR_SIZE, F_N + F_W, h + 2),
              h + 2, st, 1, F_W, 0)
       [] kind = "inx" ->
            \* read the sector after the last one of the backend
            WrDesc(WrDesc(WrDesc(
              WrHeader(m0, hdr, VIRTIO_BLK_T_IN, NbSectors),
              h, hdr, SizeofHeader, F_N, h + 1),
              h + 1, dat, SECTOR_SIZE, F_N + F_W, h + 2),
              h + 2, st, 1, F_W, 0)
       [] kind = "outx" ->
            \* write the sector after the last one of the backend
            WrDesc(WrDesc(WrDesc(
              Wr8(Wr8(WrHeader(m0, hdr, VIRTIO_BLK_T_OUT, NbSectors),
                      G(dat), 170), G(dat + SECTOR_SIZE - 1), 170),
              h, hdr, SizeofHeader, F_N, h + 1),
              h + 1, dat, SECTOR_SIZE, F_N, h + 2),
              h + 2, st, 1, F_W, 0)
       [] kind = "out" ->
            \* write sector 1 with data 0xAA ... 0xAA: header, data, status
            WrDesc(WrDesc(WrDesc(
              Wr8(Wr8(WrHeader(m0, hdr, VIRTIO_BLK_T_OUT, 1), G(dat), 170),
                  G(dat + SECTOR_SIZE - 1), 170),
              h, hdr, SizeofHeader, F_N, h + 1),
              h + 1, dat, SECTOR_SIZE, F_N, h + 2),
              h + 2, st, 1, F_W, 0)
       [] kind = "unsupp" ->
            WrDesc(WrDesc(WrHeader(m0, hdr, 7, 0),
              h, hdr, SizeofHeader, F_N, h + 1),
              h + 1, st, 1, F_W, 0)
       [] kind = "flush" ->
            WrDesc(WrDesc(WrHeader(m0, hdr, VIRTIO_BLK_T_FLUSH, 0),
              h, hdr, SizeofHeader, F_N, h + 1),
              h + 1, st, 1, F_W, 0)
       [] kind = "flush5" ->
            WrDesc(WrDesc(WrHeader(m0, hdr, VIRTIO_BLK_T_FLUSH_OUT, 0),
              h, hdr, SizeofHeader, F_N, h + 1),
              h + 1, st, 1, F_W, 0)
       [] kind = "rwr" ->
            \* readable, writable, readable: not a valid chain
            WrDesc(WrDesc(WrDesc(WrHeader(m0, hdr, VIRTIO_BLK_T_IN, 0),
              h, hdr, SizeofHeader, F_N, h + 1),
              h + 1, st, 1, F_N + F_W, h + 2),
              h + 2, dat, SECTOR_SIZE, 0, 0)
       [] kind = "nohdr" ->
            \* a single writable descriptor: no header to read
            WrDesc(m0, h, st, 1, F_W, 0)
       [] kind = "self" ->
            \* the header's descriptor has NEXT and points to itself
            WrDesc(WrHeader(m0, hdr, VIRTIO_BLK_T_IN, 0),
                   h, hdr, SizeofHeader, F_N, h)
       [] kind = "back" ->
            \* header, data, status, the status descriptor having NEXT and
            \* pointing back to the data descriptor
            WrDesc(WrDesc(WrDesc(WrHeader(m0, hdr, VIRTIO_BLK_T_IN, 0),
              h, hdr, SizeofHeader, F_N, h + 1),
              h + 1, dat, SECTOR_SIZE, F_N + F_W, h + 2),
              h + 2, st, 1, F_N + F_W, h + 1)

\* The driver adds a chain to the available ring (of 16 slots) and
\* publishes it by incrementing avail.idx.
GuestSubmit(kind) ==
  /\ halt = "no"
  /\ GuestAvailIdx < MaxHeads
  /\ LET i  == GuestAvailIdx
         m1 == WrChain(mem, i, kind)
         m2 == WrLE(m1, G(AvailLo + 4 + (i % 16) * 2), 2, 3 * i)
         m3 == WrLE(m2, G(AvailLo + 2), 2, i + 1)
     IN /\ mem' = m3
        /\ ev' = << >>
        /\ last' = [op |-> "guest", kind |-> kind, head |-> 3 * i]
        /\ UNCHANGED <<dev, irq, bf, halt, npub, uart>>

\* The driver initialises used.idx of its used ring before it submits.
GuestInitUsed(v) ==
  /\ halt = "no"
  /\ GuestAvailIdx = 0
  /\ virtio_read16(mem, G(UsedLo + 2)) = 0
  /\ mem' = WrLE(mem, G(UsedLo + 2), 2, v)
  /\ ev' = << >>
  /\ last' = [op |-> "guest_used", val |-> v]
  /\ UNCHANGED <<dev, irq, bf, halt, npub, uart>>

(***************************************************************************)
(* Device operations                                                       *)
(***************************************************************************)
\* Observer: what the operation found, for the selected queue
Pre ==
  LET qs == dev.queue[dev.queue_sel]
  IN [int_status |-> dev.int_status, irq |-> irq, ready |-> qs.ready,
      num |-> qs.num, lai |-> qs.last_avail_idx]

\* the machine after a store, r being what virtioblk_t::store returned
StoreDone(r, addr, len, lo, hi) ==
  Commit(r.m, [op |-> "store", addr |-> addr, len |-> len, lo |-> lo,
               hi |-> hi, ok |-> r.ok, pre |-> Pre])

\* the machine after a load, r being what virtioblk_t::load returned
LoadDone(r, addr, len) ==
  Commit(Cur(0), [op |-> "load", addr |-> addr, len |-> len, val |-> r.val,
                  ok |-> r.ok, pre |-> Pre])

\* a guest load of len bytes at addr of the device's window
Load(addr, len) ==
  /\ halt = "no"
  /\ npub < MaxPub
  /\ LoadDone(virtioblk_load(Cur(0), addr, len), addr, len)

\* the indeterminate heap bytes a store can meet: only a store that writes
\* QUEUE_NOTIFY reaches a malloc
HeapOf(addr, len) ==
  IF addr = VIRTIO_MMIO_QUEUE_NOTIFY
       \/ (len = 8 /\ addr + 4 = VIRTIO_MMIO_QUEUE_NOTIFY)
  THEN HeapBytes ELSE {0}

\* a guest store of len bytes at addr of the device's window
Store(addr, len, lo, hi) ==
  /\ halt = "no"
  /\ npub < MaxPub
  /\ \E g \in HeapOf(addr, len) :
       StoreDone(virtioblk_store(Cur(g), addr, len, lo, hi), addr, len, lo, hi)

\* the asynchronous backend's completion callback
Complete(ret) ==
  /\ halt = "no"
  /\ npub < MaxPub
  /\ bf.pending
  /\ \E g \in HeapBytes :
       Commit(virtio_block_req_cb([Cur(g) EXCEPT !.bf.pending = FALSE], ret),
              [op |-> "cb", ret |-> ret, pre |-> Pre])

ConfigChange ==
  /\ halt = "no"
  /\ npub < MaxPub
  /\ Commit(virtio_config_change_notify(Cur(0)),
            [op |-> "config_change", pre |-> Pre])

\* The 32-bit stores of the driver, <<register, value>>: it sizes queue 0,
\* programs its rings, marks it ready, sets STATUS, notifies, acknowledges
\* interrupts and resets the device.
StoreInputs ==
  {<<VIRTIO_MMIO_QUEUE_NUM, 4>>,
   <<VIRTIO_MMIO_QUEUE_DESC_LOW, DescLo>>,
   <<VIRTIO_MMIO_QUEUE_AVAIL_LOW, AvailLo>>,
   <<VIRTIO_MMIO_QUEUE_USED_LOW, UsedLo>>,
   <<VIRTIO_MMIO_QUEUE_READY, 1>>,
   <<VIRTIO_MMIO_QUEUE_NOTIFY, 0>>,
   <<VIRTIO_MMIO_INTERRUPT_ACK, 1>>, <<VIRTIO_MMIO_INTERRUPT_ACK, 2>>,
   <<VIRTIO_MMIO_STATUS, 0>>, <<VIRTIO_MMIO_STATUS, 15>>}

\* The driver brings a queue up in a fixed order: its size, the addresses of
\* the used ring, the available ring and the descriptor table, then
\* QUEUE_READY, then DRIVER_OK in STATUS; it notifies a queue whose rings it
\* has programmed, and acknowledges while an interrupt is pending.
DriverMay(i) ==
  LET qs == dev.queue[dev.queue_sel]
  IN CASE i[1] = VIRTIO_MMIO_QUEUE_NUM ->
            qs.used_addr = NullAddr /\ qs.num # i[2]
       [] i[1] = VIRTIO_MMIO_QUEUE_USED_LOW -> qs.used_addr = NullAddr
       [] i[1] = VIRTIO_MMIO_QUEUE_AVAIL_LOW ->
            qs.used_addr # NullAddr /\ qs.avail_addr = NullAddr
       [] i[1] = VIRTIO_MMIO_QUEUE_DESC_LOW ->
            qs.avail_addr # NullAddr /\ qs.desc_addr = NullAddr
       [] i[1] = VIRTIO_MMIO_QUEUE_READY ->
            i[2] = 1 => (qs.desc_addr # NullAddr /\ qs.ready = 0)
       [] i[1] = VIRTIO_MMIO_STATUS ->
            i[2] # 0 => (qs.ready = 1 /\ dev.status = 0)
       [] i[1] = VIRTIO_MMIO_QUEUE_NOTIFY ->
            i[2] \in Queues => dev.queue[i[2]].desc_addr # NullAddr
       [] i[1] = VIRTIO_MMIO_INTERRUPT_ACK -> dev.int_status # 0
       [] OTHER -> TRUE

Store32 == \E i \in StoreInputs : DriverMay(i) /\ Store(i[1], 4, i[2], 0)

SpecKinds == {"in", "out"}

Submit == \E k \in SpecKinds : GuestSubmit(k)

InitUsed == GuestInitUsed(W16 - 1)

Next == Store32 \/ Submit \/ InitUsed

Spec == Init /\ [][Next]_vars

(***************************************************************************)
(* The paths of the notify loop that can fail: a chain rejected by         *)
(* get_desc_rw_size, a header that cannot be read, an unsupported type, a  *)
(* write to a read-only backend                                            *)
(***************************************************************************)
ErrInputs ==
  {<<VIRTIO_MMIO_QUEUE_DESC_LOW, DescLo>>,
   <<VIRTIO_MMIO_QUEUE_AVAIL_LOW, AvailLo>>,
   <<VIRTIO_MMIO_QUEUE_USED_LOW, UsedLo>>,
   <<VIRTIO_MMIO_QUEUE_READY, 1>>,
   <<VIRTIO_MMIO_STATUS, 15>>,
   <<VIRTIO_MMIO_QUEUE_NOTIFY, 0>>,
   <<VIRTIO_MMIO_INTERRUPT_ACK, 1>>}

StoreErr == \E i \in ErrInputs : DriverMay(i) /\ Store(i[1], 4, i[2], 0)

ErrKinds == {"in", "out", "unsupp", "rwr", "nohdr"}

SubmitErr == \E k \in ErrKinds : GuestSubmit(k)

NextErr == StoreErr \/ SubmitErr

SpecErr == Init /\ [][NextErr]_vars

(***************************************************************************)
(* The device over an asynchronous backend                                 *)
(***************************************************************************)
AsyncBackends == {<<BF_MODE_RW, TRUE>>}

InitAsync == InitWith(AsyncBackends)

\* the driver's stores over the asynchronous backend
AsyncInputs ==
  {<<VIRTIO_MMIO_QUEUE_DESC_LOW, DescLo>>,
   <<VIRTIO_MMIO_QUEUE_AVAIL_LOW, AvailLo>>,
   <<VIRTIO_MMIO_QUEUE_USED_LOW, UsedLo>>,
   <<VIRTIO_MMIO_QUEUE_READY, 1>>,
   <<VIRTIO_MMIO_QUEUE_NOTIFY, 0>>,
   <<VIRTIO_MMIO_INTERRUPT_ACK, 1>>,
   <<VIRTIO_MMIO_STATUS, 0>>, <<VIRTIO_MMIO_STATUS, 15>>}

StoreAsync == \E i \in AsyncInputs : DriverMay(i) /\ Store(i[1], 4, i[2], 0)

SubmitAsync == GuestSubmit("in")

Completion == \E ret \in {0, -1} : Complete(ret)

NextAsync == StoreAsync \/ SubmitAsync \/ Completion

SpecAsync == InitAsync /\ [][NextAsync]_vars

(***************************************************************************)
(* The interrupt logic, with configuration-change notifications: either    *)
(* backend, requests that succeed, every acknowledge value                 *)
(***************************************************************************)
InitCfg == InitWith(Backends \cup AsyncBackends)

CfgInputs ==
  {<<VIRTIO_MMIO_QUEUE_DESC_LOW, DescLo>>,
   <<VIRTIO_MMIO_QUEUE_AVAIL_LOW, AvailLo>>,
   <<VIRTIO_MMIO_QUEUE_USED_LOW, UsedLo>>,
   <<VIRTIO_MMIO_QUEUE_NOTIFY, 0>>,
   <<VIRTIO_MMIO_INTERRUPT_ACK, 1>>, <<VIRTIO_MMIO_INTERRUPT_ACK, 2>>,
   <<VIRTIO_MMIO_INTERRUPT_ACK, 3>>,
   <<VIRTIO_MMIO_STATUS, 0>>}

StoreCfg == \E i \in CfgInputs : DriverMay(i) /\ Store(i[1], 4, i[2], 0)

LoadCfg == Load(VIRTIO_MMIO_INTERRUPT_STATUS, 4)

SubmitCfg == GuestSubmit("in")

CompletionCfg == Complete(0)

NextCfg == StoreCfg \/ LoadCfg \/ SubmitCfg \/ CompletionCfg \/ ConfigChange

SpecCfg == InitCfg /\ [][NextCfg]_vars

(***************************************************************************)
(* The register file alone: queue selection, queue sizes, ready bits       *)
(***************************************************************************)
RegInputs ==
  {<<VIRTIO_MMIO_QUEUE_SEL, 0>>, <<VIRTIO_MMIO_QUEUE_SEL, 1>>,
   <<VIRTIO_MMIO_QUEUE_SEL, 8>>,
   <<VIRTIO_MMIO_QUEUE_NUM, 0>>, <<VIRTIO_MMIO_QUEUE_NUM, 1>>,
   <<VIRTIO_MMIO_QUEUE_NUM, 4>>, <<VIRTIO_MMIO_QUEUE_NUM, 6>>,
   <<VIRTIO_MMIO_QUEUE_NUM, 32>>,
   <<VIRTIO_MMIO_QUEUE_READY, 1>>, <<VIRTIO_MMIO_QUEUE_READY, 0>>,
   <<VIRTIO_MMIO_STATUS, 0>>, <<VIRTIO_MMIO_STATUS, 15>>}

StoreRegs == \E i \in RegInputs : Store(i[1], 4, i[2], 0)

LoadRegs ==
  \E a \in {VIRTIO_MMIO_QUEUE_NUM, VIRTIO_MMIO_QUEUE_NUM_MAX} : Load(a, 4)

NextRegs == StoreRegs \/ LoadRegs

SpecRegs == Init /\ [][NextRegs]_vars

(***************************************************************************)
(* The queue address registers: 32-bit and 64-bit stores to the LOW/HIGH   *)
(* pairs of queues 0 and 1, and loads of them                              *)
(***************************************************************************)
\* the halves of the addresses the driver may have programmed at a time
MaxHalves == 3

AddrLowRegs ==
  {VIRTIO_MMIO_QUEUE_DESC_LOW, VIRTIO_MMIO_QUEUE_AVAIL_LOW,
   VIRTIO_MMIO_QUEUE_USED_LOW}

AddrHighRegs ==
  {VIRTIO_MMIO_QUEUE_DESC_HIGH, VIRTIO_MMIO_QUEUE_AVAIL_HIGH,
   VIRTIO_MMIO_QUEUE_USED_HIGH}

\* the values written to a low half and to a high half
LowVals == {0, 4096, 2147483647}

HighVals == {0, 1}

\* the address of queue q that the register pair of offset reg holds
AddrOf(d, q, reg) ==
  CASE reg \in {VIRTIO_MMIO_QUEUE_DESC_LOW, VIRTIO_MMIO_QUEUE_DESC_HIGH} ->
         d.queue[q].desc_addr
    [] reg \in {VIRTIO_MMIO_QUEUE_AVAIL_LOW, VIRTIO_MMIO_QUEUE_AVAIL_HIGH} ->
         d.queue[q].avail_addr
    [] OTHER -> d.queue[q].used_addr

\* the halves of queue addresses that are not 0
ProgrammedHalves ==
  {x \in Queues \X AddrLowRegs \X {1, 2} : AddrOf(dev, x[1], x[2])[x[3]] # 0}

StoreAddr32 ==
  /\ Cardinality(ProgrammedHalves) < MaxHalves
  /\ \/ \E r \in AddrLowRegs : \E v \in LowVals : Store(r, 4, v, 0)
     \/ \E r \in AddrHighRegs : \E v \in HighVals : Store(r, 4, v, 0)

StoreAddr64 ==
  /\ Cardinality(ProgrammedHalves) + 1 < MaxHalves
  /\ \E r \in AddrLowRegs : \E lo \in LowVals : \E hi \in HighVals :
       Store(r, 8, lo, hi)

StoreSel == \E v \in {0, 1, 8} : Store(VIRTIO_MMIO_QUEUE_SEL, 4, v, 0)

LoadAddr == \E r \in AddrLowRegs : Load(r, 8)

NextAddr == StoreAddr32 \/ StoreAddr64 \/ StoreSel \/ LoadAddr

SpecAddr == Init /\ [][NextAddr]_vars

(***************************************************************************)
(* Queue selection: QUEUE_SEL writes inside and outside the queue array,   *)
(* accesses to a per-queue register, resets                                *)
(***************************************************************************)
SelInputs ==
  {<<VIRTIO_MMIO_QUEUE_SEL, 0>>, <<VIRTIO_MMIO_QUEUE_SEL, 1>>,
   <<VIRTIO_MMIO_QUEUE_SEL, 7>>, <<VIRTIO_MMIO_QUEUE_SEL, 8>>,
   <<VIRTIO_MMIO_QUEUE_SEL, 255>>,
   <<VIRTIO_MMIO_QUEUE_READY, 1>>, <<VIRTIO_MMIO_QUEUE_READY, 0>>,
   <<VIRTIO_MMIO_STATUS, 0>>}

StoreSelect == \E i \in SelInputs : Store(i[1], 4, i[2], 0)

LoadSelect ==
  \E a \in {VIRTIO_MMIO_QUEUE_SEL, VIRTIO_MMIO_QUEUE_READY} : Load(a, 4)

NextSel == StoreSelect \/ LoadSelect

SpecSel == Init /\ [][NextSel]_vars

(***************************************************************************)
(* A device one of whose queues has manual_recv set, as a front end that   *)
(* pulls its requests on its own schedule sets it.  The driver programs    *)
(* queue 0 and queue 1 with the same rings and notifies queues 0, 1 and 8. *)
(***************************************************************************)
set_manual_recv(m, queue_idx) ==
  [m EXCEPT !.dev.queue[queue_idx].manual_recv = TRUE]

InitManual ==
  LET bs == block_device_init(BF_MODE_RW, FALSE)
      m  == set_manual_recv(
              virtio_block_init(
                [dev |-> ZeroDev, mem |-> << >>, irq |-> 0, bf |-> bs,
                 halt |-> "no", ev |-> << >>, heap |-> 0], bs.nb_sectors), 1)
  IN /\ dev = m.dev
     /\ mem = m.mem
     /\ irq = m.irq
     /\ bf = m.bf
     /\ halt = "no"
     /\ ev = << >>
     /\ last = [op |-> "init"]
     /\ npub = 0
     /\ uart = sifive_uart_init

ManualInputs ==
  {<<VIRTIO_MMIO_QUEUE_SEL, 1>>,
   <<VIRTIO_MMIO_QUEUE_DESC_LOW, DescLo>>,
   <<VIRTIO_MMIO_QUEUE_AVAIL_LOW, AvailLo>>,
   <<VIRTIO_MMIO_QUEUE_USED_LOW, UsedLo>>,
   <<VIRTIO_MMIO_QUEUE_NOTIFY, 0>>, <<VIRTIO_MMIO_QUEUE_NOTIFY, 1>>,
   <<VIRTIO_MMIO_QUEUE_NOTIFY, 8>>,
   <<VIRTIO_MMIO_INTERRUPT_ACK, 1>>}

StoreManual ==
  \E i \in ManualInputs :
    /\ DriverMay(i)
    /\ (i[1] = VIRTIO_MMIO_QUEUE_SEL => dev.queue_sel # i[2])
    /\ Store(i[1], 4, i[2], 0)

SubmitManual == GuestSubmit("in")

NextManual == StoreManual \/ SubmitManual

SpecManual == InitManual /\ [][NextManual]_vars

(***************************************************************************)
(* Feature negotiation: DEVICE_FEATURES_SEL writes, loads of every width   *)
(* of DEVICE_FEATURES and DEVICE_FEATURES_SEL, resets                      *)
(***************************************************************************)
FeatInputs ==
  {<<VIRTIO_MMIO_DEVICE_FEATURES_SEL, 0>>, <<VIRTIO_MMIO_DEVICE_FEATURES_SEL, 1>>,
   <<VIRTIO_MMIO_DEVICE_FEATURES_SEL, 2>>,
   <<VIRTIO_MMIO_DEVICE_FEATURES_SEL, 2147483647>>,
   <<VIRTIO_MMIO_DEVICE_FEATURES, 1>>,
   <<VIRTIO_MMIO_STATUS, 0>>, <<VIRTIO_MMIO_STATUS, 15>>}

StoreFeat == \E i \in FeatInputs : Store(i[1], 4, i[2], 0)

LoadFeat ==
  \E a \in {VIRTIO_MMIO_DEVICE_FEATURES, VIRTIO_MMIO_DEVICE_FEATURES_SEL} :
    \E len \in {1, 2, 4, 8} : Load(a, len)

NextFeat == StoreFeat \/ LoadFeat

SpecFeat == Init /\ [][NextFeat]_vars

(***************************************************************************)
(* Well-formed block requests on a queue brought up in order: reads of one *)
(* and of two sectors, writes of one sector, over the file backend         *)
(* read-write and read-only                                                *)
(***************************************************************************)
BlkInputs ==
  {<<VIRTIO_MMIO_QUEUE_DESC_LOW, DescLo>>,
   <<VIRTIO_MMIO_QUEUE_AVAIL_LOW, AvailLo>>,
   <<VIRTIO_MMIO_QUEUE_USED_LOW, UsedLo>>,
   <<VIRTIO_MMIO_QUEUE_READY, 1>>,
   <<VIRTIO_MMIO_STATUS, 15>>,
   <<VIRTIO_MMIO_QUEUE_NOTIFY, 0>>,
   <<VIRTIO_MMIO_INTERRUPT_ACK, 1>>}

\* the driver notifies once the queue is ready and DRIVER_OK is set
StoreBlk ==
  \E i \in BlkInputs :
    /\ DriverMay(i)
    /\ (i[1] = VIRTIO_MMIO_QUEUE_NOTIFY =>
          (dev.queue[0].ready = 1 /\ dev.status # 0))
    /\ Store(i[1], 4, i[2], 0)

BlkKinds == {"in", "in1", "in2", "out"}

SubmitBlk == \E k \in BlkKinds : GuestSubmit(k)

NextBlk == StoreBlk \/ SubmitBlk

SpecBlk == Init /\ [][NextBlk]_vars

(***************************************************************************)
(* Requests of the types the device does not transfer data for: FLUSH (4), *)
(* FLUSH_OUT (5) and an unknown type (7), next to reads                    *)
(***************************************************************************)
FlushKinds == {"flush", "flush5", "unsupp", "in"}

SubmitFlush == \E k \in FlushKinds : GuestSubmit(k)

NextFlush == StoreBlk \/ SubmitFlush

SpecFlush == Init /\ [][NextFlush]_vars

(***************************************************************************)
(* Requests for the sector after the last one, over the file backend in    *)
(* each of its modes                                                       *)
(***************************************************************************)
AllModes ==
  {<<BF_MODE_RW, FALSE>>, <<BF_MODE_RO, FALSE>>, <<BF_MODE_SNAPSHOT, FALSE>>}

InitModes == InitWith(AllModes)

RangeKinds == {"in", "inx", "outx"}

SubmitRange == \E k \in RangeKinds : GuestSubmit(k)

NextRange == StoreBlk \/ SubmitRange

SpecRange == InitModes /\ [][NextRange]_vars

(***************************************************************************)
(* The snapshot backend called through the BlockDevice interface:          *)
(* read_async and write_async of up to MaxXfer sectors                     *)
(***************************************************************************)
MaxXfer == 2

InitSnapshot == InitWith({<<BF_MODE_SNAPSHOT, FALSE>>})

\* the bytes a caller writes to a sector: zeros, or v at both ends
SectorData == {0, 170, 85}

SectorBuf(v) == IF v = 0 THEN EmptyBuf ELSE [o \in {0, SECTOR_SIZE - 1} |-> v]

\* the buffer of Len(vs) sectors, sector i holding SectorBuf(vs[i])
RECURSIVE WriteBuf(_)
WriteBuf(vs) ==
  IF vs = << >> THEN EmptyBuf
  ELSE BufPut(WriteBuf(SubSeq(vs, 1, Len(vs) - 1)),
              (Len(vs) - 1) * SECTOR_SIZE, SectorBuf(vs[Len(vs)]), SECTOR_SIZE)

\* the backend after write_async returned r; a call that had undefined
\* behaviour stops the simulator or goes on
BfWriteDone(r, sector_num, n, buf, g) ==
  /\ IF r.ub /\ g # 0
     THEN bf' = bf /\ halt' = "crash"
     ELSE bf' = r.bf /\ halt' = halt
  /\ last' = [op |-> "bf_write", sector |-> sector_num, n |-> n, buf |-> buf,
              ret |-> r.ret, pre |-> bf]
  /\ UNCHANGED <<dev, mem, irq, ev, npub, uart>>

\* a caller's write of n sectors from sector_num on
BfWrite(sector_num, n) ==
  /\ halt = "no"
  /\ \E g \in HeapBytes :
       \E vs \in [1 .. n -> SectorData] :
         BfWriteDone(write_async(bf, sector_num, WriteBuf(vs), n),
                     sector_num, n, WriteBuf(vs), g)

\* the backend after read_async returned r
BfReadDone(r, sector_num, n) ==
  /\ bf' = r.bf
  /\ last' = [op |-> "bf_read", sector |-> sector_num, n |-> n, buf |-> r.buf,
              ret |-> r.ret, pre |-> bf]
  /\ UNCHANGED <<dev, mem, irq, halt, ev, npub, uart>>

\* a read within the backend's sectors into a buffer of indeterminate bytes
BfRead ==
  /\ halt = "no"
  /\ \E sector_num \in 0 .. NbSectors, n \in 0 .. MaxXfer, g \in HeapBytes :
       /\ sector_num + n <= bf.nb_sectors
       /\ BfReadDone(read_async(bf, sector_num, malloc(n * SECTOR_SIZE, g),
                                n, g), sector_num, n)

\* a write within the backend's sectors
BfWriteInRange ==
  \E sector_num \in 0 .. NbSectors, n \in 0 .. MaxXfer :
    sector_num + n <= bf.nb_sectors /\ BfWrite(sector_num, n)

NextSnapshot == BfWriteInRange \/ BfRead

SpecSnapshot == InitSnapshot /\ [][NextSnapshot]_vars

(***************************************************************************)
(* The snapshot backend with callers that also write past its sectors:     *)
(* from the sector after the last one, and from sector 2^64 - 1            *)
(***************************************************************************)
WriteSectors == {-1} \cup (0 .. NbSectors)

BfWriteAny ==
  \E sector_num \in WriteSectors, n \in 0 .. MaxXfer : BfWrite(sector_num, n)

NextSnapshotAny == BfWriteAny \/ BfRead

SpecSnapshotAny == InitSnapshot /\ [][NextSnapshotAny]_vars

(***************************************************************************)
(* Reads whose chain has no writable descriptor, next to well-formed reads *)
(***************************************************************************)
ZeroKinds == {"in0", "in"}

SubmitZero == \E k \in ZeroKinds : GuestSubmit(k)

NextZero == StoreBlk \/ SubmitZero

SpecZero == Init /\ [][NextZero]_vars

(***************************************************************************)
(* Reads and writes over backends that complete later (read-write and      *)
(* read-only) and at once                                                  *)
(***************************************************************************)
BusyBackends ==
  {<<BF_MODE_RW, TRUE>>, <<BF_MODE_RO, TRUE>>, <<BF_MODE_RW, FALSE>>}

InitBusy == InitWith(BusyBackends)

BusyInputs ==
  {<<VIRTIO_MMIO_QUEUE_DESC_LOW, DescLo>>,
   <<VIRTIO_MMIO_QUEUE_AVAIL_LOW, AvailLo>>,
   <<VIRTIO_MMIO_QUEUE_USED_LOW, UsedLo>>,
   <<VIRTIO_MMIO_QUEUE_NOTIFY, 0>>,
   <<VIRTIO_MMIO_INTERRUPT_ACK, 1>>}

StoreBusy == \E i \in BusyInputs : DriverMay(i) /\ Store(i[1], 4, i[2], 0)

BusyKinds == {"in", "out"}

SubmitBusy == \E k \in BusyKinds : GuestSubmit(k)

NextBusy == StoreBusy \/ SubmitBusy \/ Completion

SpecBusy == InitBusy /\ [][NextBusy]_vars

\* ENABLED <<Completion>>_vars: the guard of Complete, whose step always
\* changes last or npub
CompletionEnabled == halt = "no" /\ npub < MaxPub /\ bf.pending

\* the steps of Completion are those that leave last.op = "cb"
CompletionStep == last'.op = "cb"

\* every backend call completes: the completion callback is not put off
\* for ever.  This is WF_vars(Completion) written out.
CompletionFair == []<>(~CompletionEnabled) \/ []<><<CompletionStep>>_vars

SpecBusyLive == InitBusy /\ [][NextBusy]_vars /\ CompletionFair

(***************************************************************************)
(* UART operations                                                         *)
(***************************************************************************)
\* the machine after sifive_uart_t::load returned r
UartLoadDone(r, addr, len) ==
  /\ uart' = r.u
  /\ halt' = r.halt
  /\ last' = [op |-> "uart_load", addr |-> addr, len |-> len, ok |-> r.ok,
              val |-> r.val, pre |-> uart]
  /\ UNCHANGED <<dev, mem, irq, bf, ev, npub>>

\* a guest load of len bytes at addr of the UART's window
UartLoad(addr, len) ==
  /\ halt = "no"
  /\ UartLoadDone(sifive_uart_load(uart, addr, len), addr, len)

\* the machine after sifive_uart_t::store returned r
UartStoreDone(r, addr, len, val) ==
  /\ uart' = r.u
  /\ halt' = r.halt
  /\ last' = [op |-> "uart_store", addr |-> addr, len |-> len, ok |-> r.ok,
              lo |-> val, pre |-> uart]
  /\ UNCHANGED <<dev, mem, irq, bf, ev, npub>>

\* a guest store of the len low bytes of val at addr of the UART's window
UartStore(addr, len, val) ==
  /\ halt = "no"
  /\ UartStoreDone(sifive_uart_store(uart, addr, len, val), addr, len, val)

\* the machine after sifive_uart_t::tick returned r
UartTickDone(r, rc) ==
  /\ uart' = r.u
  /\ last' = [op |-> "uart_tick", read |-> r.read,
              rc |-> IF r.read THEN rc ELSE -1, pre |-> uart]
  /\ UNCHANGED <<dev, mem, irq, bf, halt, ev, npub>>

\* a simulator tick, the host terminal holding the byte rc or nothing (-1)
UartTick(rc) ==
  /\ halt = "no"
  /\ UartTickDone(sifive_uart_tick(uart, rc), rc)

(***************************************************************************)
(* Accesses of every width to both devices, inside and outside the UART's  *)
(* window                                                                  *)
(***************************************************************************)
InitOne == InitWith({<<BF_MODE_RW, FALSE>>})

WinLens == {1, 2, 3, 4, 8, 9}

WinRegs ==
  {VIRTIO_MMIO_DEVICE_FEATURES_SEL, VIRTIO_MMIO_QUEUE_SEL, VIRTIO_MMIO_STATUS}

\* registers of the UART, an offset of its window that is no register, and
\* an address past the window
UartWinAddrs ==
  {UART_TXFIFO, UART_RXFIFO, UART_IE, UART_IP, UART_DIV + 4, UART_WINDOW}

LoadWin == \E a \in WinRegs, len \in WinLens : Load(a, len)

StoreWin == \E a \in WinRegs, len \in WinLens : Store(a, len, 1, 0)

UartLoadWin == \E a \in UartWinAddrs, len \in WinLens : UartLoad(a, len)

UartStoreWin == \E a \in UartWinAddrs, len \in WinLens : UartStore(a, len, 3)

NextWin == LoadWin \/ StoreWin \/ UartLoadWin \/ UartStoreWin

SpecWin == InitOne /\ [][NextWin]_vars

(***************************************************************************)
(* Loads and stores of width 1 and 2 of the block device's registers, on a *)
(* device whose driver has set up queue 0 and submits reads                *)
(***************************************************************************)
NarrowLens == {1, 2}

NarrowRegs ==
  {VIRTIO_MMIO_QUEUE_NOTIFY, VIRTIO_MMIO_STATUS, VIRTIO_MMIO_INTERRUPT_ACK,
   VIRTIO_MMIO_QUEUE_READY, VIRTIO_MMIO_INTERRUPT_STATUS}

LoadNarrow == \E a \in NarrowRegs, len \in NarrowLens : Load(a, len)

StoreNarrow == \E a \in NarrowRegs, len \in NarrowLens : Store(a, len, 0, 0)

SubmitNarrow == GuestSubmit("in")

NextNarrow == StoreBlk \/ SubmitNarrow \/ LoadNarrow \/ StoreNarrow

SpecNarrow == InitOne /\ [][NextNarrow]_vars

(***************************************************************************)
(* The UART: ticks with and without a byte on the host terminal, loads of  *)
(* RXFIFO, IP and IE, stores to IE, TXCTRL and TXFIFO                      *)
(***************************************************************************)
\* what canonical_terminal_t::read() returns: nothing, 'A', or the byte 200
TickBytes == {-1, 65, 200}

UartLens == {1, 4}

UartLoadRegs == {UART_RXFIFO, UART_IP, UART_IE}

\* <<register, value>> of the driver's stores
UartStores ==
  {<<UART_IE, 0>>, <<UART_IE, 1>>, <<UART_IE, 2>>, <<UART_IE, 3>>,
   <<UART_TXCTRL, 1>>, <<UART_TXFIFO, 65>>}

UartLoadReg == \E a \in UartLoadRegs, len \in UartLens : UartLoad(a, len)

UartStoreReg == \E s \in UartStores : UartStore(s[1], 4, s[2])

UartTickAny == \E rc \in TickBytes : UartTick(rc)

NextUart == UartLoadReg \/ UartStoreReg \/ UartTickAny

SpecUart == InitOne /\ [][NextUart]_vars

(***************************************************************************)
(* virtio_consume_desc one store at a time, on queue 0 of a device whose   *)
(* driver has programmed the rings: last.pc counts the stores done         *)
(***************************************************************************)
Consuming == last.op = "consume" /\ last.pc < 4

OrderInputs ==
  {<<VIRTIO_MMIO_QUEUE_DESC_LOW, DescLo>>,
   <<VIRTIO_MMIO_QUEUE_AVAIL_LOW, AvailLo>>,
   <<VIRTIO_MMIO_QUEUE_USED_LOW, UsedLo>>,
   <<VIRTIO_MMIO_QUEUE_READY, 1>>,
   <<VIRTIO_MMIO_STATUS, 15>>,
   <<VIRTIO_MMIO_INTERRUPT_ACK, 1>>}

\* the guest runs between two calls, never within one
StoreOrder ==
  \E i \in OrderInputs :
    /\ ~Consuming
    /\ DriverMay(i)
    /\ Store(i[1], 4, i[2], 0)

\* heads and lengths of the chains consumed
OrderHeads == {3, 6}
OrderLens == {1, 513}

\* line 549-551: used.idx is incremented
ConsumeIdx(desc_idx, desc_len) ==
  /\ halt = "no"
  /\ npub < MaxPub
  /\ ~Consuming
  /\ dev.queue[0].ready = 1 /\ dev.status # 0
  /\ LET r == consume_desc_idx(Cur(0), 0)
     IN /\ mem' = r.mem
        /\ last' = [op |-> "consume", pc |-> 1, head |-> desc_idx,
                    len |-> desc_len, index |-> r.index, pre |-> Cur(0)]
  /\ ev' = << >>
  /\ UNCHANGED <<dev, irq, bf, halt, npub, uart>>

\* line 552-553: the entry's id is stored
ConsumeId ==
  /\ Consuming /\ last.pc = 1
  /\ mem' = consume_desc_id(Cur(0), 0, last.index, last.head)
  /\ last' = [last EXCEPT !.pc = 2]
  /\ UNCHANGED <<dev, irq, bf, halt, ev, npub, uart>>

\* line 554: the entry's len is stored
ConsumeLen ==
  /\ Consuming /\ last.pc = 2
  /\ mem' = consume_desc_len(Cur(0), 0, last.index, last.len)
  /\ last' = [last EXCEPT !.pc = 3]
  /\ UNCHANGED <<dev, irq, bf, halt, ev, npub, uart>>

\* line 559-560: int_status bit 0 is set and the line raised
ConsumeIrq ==
  /\ Consuming /\ last.pc = 3
  /\ LET m == consume_desc_irq(Cur(0))
     IN dev' = m.dev /\ irq' = m.irq
  /\ last' = [last EXCEPT !.pc = 4]
  /\ npub' = npub + 1
  /\ UNCHANGED <<mem, bf, halt, ev, uart>>

ConsumeStart == \E h \in OrderHeads, n \in OrderLens : ConsumeIdx(h, n)

NextOrder == StoreOrder \/ ConsumeStart \/ ConsumeId \/ ConsumeLen \/ ConsumeIrq

SpecOrder == InitOne /\ [][NextOrder]_vars

(***************************************************************************)
(* Notifies of queue 0 with any number of heads waiting, among them heads  *)
(* whose chain get_desc_rw_size rejects, over backends that complete later *)
(* and at once                                                             *)
(***************************************************************************)
NotifyKinds == {"in", "out", "rwr"}

SubmitNotify == \E k \in NotifyKinds : GuestSubmit(k)

NextNotify == StoreBusy \/ SubmitNotify \/ Completion

SpecNotify == InitBusy /\ [][NextNotify]_vars

(***************************************************************************)
(* The walk of the available ring: reads and chains get_desc_rw_size       *)
(* rejects, over a backend that completes later and one that completes at  *)
(* once, with resets; from the device as constructed and from the device   *)
(* that has handled 65535 heads, whose next head wraps last_avail_idx      *)
(***************************************************************************)
AdvanceBackends == {<<BF_MODE_RW, TRUE>>, <<BF_MODE_RW, FALSE>>}

\* the device and the driver's rings after 65535 heads handled and
\* acknowledged
InitLate(B) ==
  \E b \in B :
    LET bs == block_device_init(b[1], b[2])
        m  == virtio_block_init(
                [dev |-> ZeroDev, mem |-> << >>, irq |-> 0, bf |-> bs,
                 halt |-> "no", ev |-> << >>, heap |-> 0], bs.nb_sectors)
    IN /\ dev = [m.dev EXCEPT
                   !.status = 15,
                   !.queue[0] = [@ EXCEPT !.ready = 1,
                                          !.desc_addr = G(DescLo),
                                          !.avail_addr = G(AvailLo),
                                          !.used_addr = G(UsedLo),
                                          !.last_avail_idx = W16 - 1]]
       /\ mem = WrLE(WrLE(m.mem, G(AvailLo + 2), 2, W16 - 1),
                     G(UsedLo + 2), 2, W16 - 1)
       /\ irq = m.irq
       /\ bf = m.bf
       /\ halt = "no"
       /\ ev = << >>
       /\ last = [op |-> "init"]
       /\ npub = 0
       /\ uart = sifive_uart_init

InitAdvance == InitWith(AdvanceBackends) \/ InitLate(AdvanceBackends)

\* The driver adds a chain at the ring slot avail.idx mod 16, its
\* descriptors and buffers being those of that slot.
GuestSubmitRing(kind) ==
  /\ halt = "no"
  /\ GuestAvailIdx = W16 - 1 \/ GuestAvailIdx < MaxHeads
  /\ LET i  == GuestAvailIdx
         k  == i % 16
         m1 == WrChain(mem, k, kind)
         m2 == WrLE(m1, G(AvailLo + 4 + k * 2), 2, 3 * k)
         m3 == WrLE(m2, G(AvailLo + 2), 2, (i + 1) % W16)
     IN /\ mem' = m3
        /\ ev' = << >>
        /\ last' = [op |-> "guest", kind |-> kind, head |-> 3 * k]
        /\ UNCHANGED <<dev, irq, bf, halt, npub, uart>>

AdvanceInputs ==
  {<<VIRTIO_MMIO_QUEUE_DESC_LOW, DescLo>>,
   <<VIRTIO_MMIO_QUEUE_AVAIL_LOW, AvailLo>>,
   <<VIRTIO_MMIO_QUEUE_USED_LOW, UsedLo>>,
   <<VIRTIO_MMIO_QUEUE_NOTIFY, 0>>,
   <<VIRTIO_MMIO_STATUS, 0>>}

\* the driver resets a device that has handled a head, once it has
\* submitted all its chains
StoreAdvance ==
  \E i \in AdvanceInputs :
    /\ DriverMay(i)
    /\ (i = <<VIRTIO_MMIO_STATUS, 0>> =>
          (GuestAvailIdx = MaxHeads /\ dev.queue[0].last_avail_idx # 0))
    /\ Store(i[1], 4, i[2], 0)

AdvanceKinds == {"in", "rwr"}

SubmitAdvance == \E k \in AdvanceKinds : GuestSubmitRing(k)

CompleteAdvance == Complete(0)

NextAdvance == StoreAdvance \/ SubmitAdvance \/ CompleteAdvance

SpecAdvance == InitAdvance /\ [][NextAdvance]_vars

(***************************************************************************)
(* Chains whose next links form a cycle, next to well-formed reads         *)
(***************************************************************************)
CycleKinds == {"in", "self", "back"}

SubmitCycle == \E k \in CycleKinds : GuestSubmit(k)

NextCycle == StoreBlk \/ SubmitCycle

SpecCycle == Init /\ [][NextCycle]_vars

(***************************************************************************)
(* get_desc_rw_size on every acyclic chain of up to MaxDescs descriptors,  *)
(* each readable or writable and of one of three lengths, and notifies of  *)
(* reads and of chains it rejects                                          *)
(***************************************************************************)
MaxDescs == 3

\* 2^30: two such descriptors exceed the largest int
BigLen == 2 ^ 30

SizeLens == {SizeofHeader, SECTOR_SIZE, BigLen}

\* a chain: for each descriptor its len and whether it has WRITE
Shapes == UNION {[1 .. n -> SizeLens \X BOOLEAN] : n \in 1 .. MaxDescs}

\* where the driver keeps the chain measured
ShapeBase == 4 * 16

RECURSIVE WrShape(_, _, _)
\* the descriptors k .. Len(shape) of the chain, each linked to the next
WrShape(mm, shape, k) ==
  IF k > Len(shape) THEN mm
  ELSE WrShape(WrDesc(mm, ShapeBase + k - 1, BufLo(0), shape[k][1],
                      (IF shape[k][2] THEN F_W ELSE 0)
                        + (IF k < Len(shape) THEN F_N ELSE 0),
                      ShapeBase + k),
               shape, k + 1)

\* get_desc_rw_size on the chain shape, in the table of queue 0
RwSize(shape) ==
  /\ last' = [op |-> "rw_size", shape |-> shape,
              r |-> get_desc_rw_size(WrShape(mem, shape, 1), dev.queue[0],
                                     ShapeBase)]
  /\ ev' = << >>
  /\ UNCHANGED <<dev, mem, irq, bf, halt, npub, uart>>

RwSizeAny ==
  /\ halt = "no"
  /\ dev.queue[0].desc_addr = G(DescLo)
  /\ GuestAvailIdx = 0
  /\ last.op # "rw_size"
  /\ \E shape \in Shapes : RwSize(shape)

SizeKinds == {"in", "rwr"}

SubmitSizes == \E k \in SizeKinds : GuestSubmit(k)

NextSizes == StoreErr \/ SubmitSizes \/ RwSizeAny

SpecSizes == Init /\ [][NextSizes]_vars

(***************************************************************************)
(* memcpy_to_from_queue on its own, and the block front end on chains      *)
(* whose copies fail                                                       *)
(***************************************************************************)
ProbeLens == {1, 2}

\* chains of 1 .. MaxDescs descriptors, each <<len, writable>>
ProbeShapes == UNION {[1 .. n -> ProbeLens \X BOOLEAN] : n \in 1 .. MaxDescs}

\* the <<offset, count>> passed to the copy
MaxXferBytes == 3
ProbeSpans ==
  {s \in (0 .. MaxXferBytes) \X (0 .. MaxXferBytes) :
     s[1] + s[2] <= MaxXferBytes}

\* byte j of the buffer of descriptor k, as the driver filled it
ProbeByte(k, j) == 1 + 4 * (k - 1) + j

\* byte i of the host buffer handed to memcpy_to_queue
HostByte(i) == 200 + i

ProbeHost == [i \in 0 .. (MaxXferBytes - 1) |-> HostByte(i)]

RECURSIVE WrProbe(_, _, _)
\* the descriptors k .. Len(shape) of the chain, each with a buffer of its
\* own holding ProbeByte, each linked to the next
WrProbe(mm, shape, k) ==
  IF k > Len(shape) THEN mm
  ELSE LET m1 == WrDesc(mm, ShapeBase + k - 1, BufLo(k - 1), shape[k][1],
                        (IF shape[k][2] THEN F_W ELSE 0)
                          + (IF k < Len(shape) THEN F_N ELSE 0),
                        ShapeBase + k)
           m2 == MemPatch(m1, [x \in {G(BufLo(k - 1) + j) :
                                        j \in 0 .. (shape[k][1] - 1)} |->
                                 ProbeByte(k, x[2] - BufLo(k - 1))])
       IN WrProbe(m2, shape, k + 1)

\* memcpy_from_queue / memcpy_to_queue on the chain shape, in the table of
\* queue 0.  The copy depends on the descriptor table only; it is run
\* when the driver has just programmed the address of the table.
MqProbe(shape, span, to_queue) ==
  /\ LET mm == WrProbe(mem, shape, 1)
     IN last' = [op |-> "mq", shape |-> shape, off |-> span[1],
                 cnt |-> span[2], dir |-> to_queue, before |-> mm,
                 mq |-> memcpy_to_from_queue(mm, dev.queue[0],
                                             IF to_queue THEN ProbeHost
                                                         ELSE EmptyBuf,
                                             ShapeBase, span[1], span[2],
                                             to_queue)]
  /\ ev' = << >>
  /\ UNCHANGED <<dev, mem, irq, bf, halt, npub, uart>>

MqProbeAny ==
  /\ halt = "no"
  /\ dev.queue[0].desc_addr = G(DescLo)
  /\ last.op = "store" /\ last.addr = VIRTIO_MMIO_QUEUE_DESC_LOW
  /\ GuestAvailIdx = 0
  /\ \E shape \in ProbeShapes, span \in ProbeSpans, to_queue \in BOOLEAN :
       MqProbe(shape, span, to_queue)

CopyKinds == {"in", "out", "nohdr"}

\* A probe changes nothing of the device or of guest memory: the driver
\* goes on from the state the probe started in.
SubmitCopy == last.op # "mq" /\ \E k \in CopyKinds : GuestSubmit(k)

StoreCopy == last.op # "mq" /\ StoreErr

NextCopy == StoreCopy \/ SubmitCopy \/ MqProbeAny

SpecCopy == InitOne /\ [][NextCopy]_vars

(***************************************************************************)
(* The file backend of the tree in each of its modes, every call of which  *)
(* returns before the request is handed back                               *)
(***************************************************************************)
SyncKinds == {"in", "out", "unsupp"}

SubmitSync == \E k \in SyncKinds : GuestSubmit(k)

NextSync == StoreBlk \/ SubmitSync

SpecSync == InitModes /\ [][NextSync]_vars

(***************************************************************************)
(* Properties                                                              *)
(***************************************************************************)
\* the operation that ran last was a 32-bit store to register addr
StoreOf(addr) == last.op = "store" /\ last.len = 4 /\ last.addr = addr

\* the events of kind t that the handler that ran last logged
Events(t) == {k \in DOMAIN ev : ev[k].t = t}

IsPow2(n) == \E k \in 0 .. 30 : n = 2 ^ k

HasBit(v, b) == (v \div b) % 2 = 1

\* the DRIVER_OK bit (4) of STATUS
DriverOk(status) == HasBit(status, 4)

\* C1: after a 32-bit write of 0 to STATUS, from any reachable state, every
\* queue has ready = 0 and last_avail_idx = 0, int_status = 0 and the IRQ
\* line is low.
C1_ResetClearsQueues ==
  (StoreOf(VIRTIO_MMIO_STATUS) /\ last.lo = 0) =>
    /\ \A q \in Queues :
         dev.queue[q].ready = 0 /\ dev.queue[q].last_avail_idx = 0
    /\ dev.int_status = 0
    /\ irq = 0

\* a reset of a device whose queue was ready, had taken heads and had an
\* interrupt pending
C1_Witness ==
  /\ StoreOf(VIRTIO_MMIO_STATUS) /\ last.lo = 0
  /\ last.pre.ready = 1 /\ last.pre.lai > 0
  /\ last.pre.int_status = 1 /\ last.pre.irq = 1
  /\ dev.queue[0].ready = 0 /\ dev.queue[0].last_avail_idx = 0 /\ irq = 0

\* C2: in every state reachable by MMIO loads and stores, used-ring
\* publications, configuration-change notifications and resets, the IRQ line
\* is high exactly when int_status is not 0.
C2_IrqIffIntStatus == (irq = 1) <=> (dev.int_status # 0)

\* an acknowledge of the used-ring bit while the configuration-change bit is
\* pending too: the line stays high
C2_Witness ==
  /\ StoreOf(VIRTIO_MMIO_INTERRUPT_ACK) /\ last.lo = 1
  /\ last.pre.int_status = 3
  /\ dev.int_status = 2 /\ irq = 1

\* C3: immediately after virtio_consume_desc(q, head, len) returns, used.idx
\* of queue q is the old used.idx plus 1 modulo 2^16 and the used-ring entry
\* at slot (old_idx mod q.num) is (head, len).
C3_PublishedEntry ==
  \A k \in Events("pub") :
    /\ ev[k].idx = (ev[k].old + 1) % W16
    /\ ev[k].entry = <<ev[k].head, ev[k].len>>

\* a publication that wraps used.idx from 65535 to 0, for a read of one
\* sector
C3_Witness ==
  \E k \in Events("pub") :
    /\ ev[k].old = W16 - 1 /\ ev[k].idx = 0
    /\ ev[k].len = SECTOR_SIZE + 1
    /\ ev[k].entry = <<ev[k].head, SECTOR_SIZE + 1>>

\* C4: after any used-ring publication INTERRUPT_STATUS reads 1 and the IRQ
\* is high; a write of val to INTERRUPT_ACK sets int_status to
\* int_status & ~val and lowers the IRQ if and only if the result is 0.
C4_PublicationAndAck ==
  /\ \A k \in Events("pub") : ev[k].int_status = 1 /\ ev[k].irq = 1
  /\ Events("pub") # {} =>
       virtio_mmio_read(Cur(0), VIRTIO_MMIO_INTERRUPT_STATUS) = 1 /\ irq = 1
  /\ StoreOf(VIRTIO_MMIO_INTERRUPT_ACK) =>
       /\ dev.int_status = BitAndNot(last.pre.int_status, last.lo)
       /\ irq = IF dev.int_status = 0 THEN 0 ELSE last.pre.irq

\* writing 1 after a publication: status 0 and the line low
C4_Witness ==
  /\ StoreOf(VIRTIO_MMIO_INTERRUPT_ACK) /\ last.lo = 1
  /\ npub > 0 /\ last.pre.int_status = 1 /\ last.pre.irq = 1
  /\ dev.int_status = 0 /\ irq = 0

\* the operations of the device, which record what they found
DeviceOp == last.op \in {"store", "load", "cb", "config_change"}

\* the operation that ran last was an INTERRUPT_ACK write whose value has
\* bit b
AckOf(b) == StoreOf(VIRTIO_MMIO_INTERRUPT_ACK) /\ HasBit(last.lo, b)

\* C5, as stated: once a bit of int_status is set it stays set across every
\* operation until a write to INTERRUPT_ACK whose value contains that bit.
C5_StickyUntilAck ==
  DeviceOp =>
    \A b \in {1, 2} :
      (HasBit(last.pre.int_status, b) /\ ~AckOf(b)) =>
        HasBit(dev.int_status, b)

\* C5, amended: a bit of int_status stays set across every operation until a
\* write to INTERRUPT_ACK whose value contains that bit, or a reset (a write
\* of 0 to STATUS).
C5_StickyUntilAckOrReset ==
  (DeviceOp /\ ~(StoreOf(VIRTIO_MMIO_STATUS) /\ last.lo = 0)) =>
    \A b \in {1, 2} :
      (HasBit(last.pre.int_status, b) /\ ~AckOf(b)) =>
        HasBit(dev.int_status, b)

\* an acknowledge of the configuration-change bit alone: the used-ring bit
\* stays
C5_Witness ==
  /\ StoreOf(VIRTIO_MMIO_INTERRUPT_ACK) /\ last.lo = 2
  /\ last.pre.int_status = 3
  /\ dev.int_status = 1

\* C6: a QUEUE_NOTIFY write for a queue with ready = 0, or while DRIVER_OK
\* is clear, does not invoke recv_request, does not advance last_avail_idx
\* and publishes no used-ring entry.
C6_NotifyNeedsReady ==
  (/\ StoreOf(VIRTIO_MMIO_QUEUE_NOTIFY)
   /\ last.lo \in Queues
   /\ (dev.queue[last.lo].ready = 0 \/ ~DriverOk(dev.status))) =>
    /\ Events("recv") = {} /\ Events("adv") = {} /\ Events("pub") = {}
    /\ dev.queue[last.lo].last_avail_idx = last.pre.lai

\* C7: if STATUS is written 0 while a block request is in flight, the later
\* completion publishes nothing: no used-ring entry or used.idx is written,
\* int_status stays 0 and the IRQ is not raised.  (The driver programs the
\* used ring before it notifies, so a completion that finds the used ring
\* address 0 comes after a reset.)
C7_CompletionAfterReset ==
  (/\ last.op = "cb"
   /\ dev.queue[dev.req.queue_idx].used_addr = NullAddr
   /\ last.pre.ready = 0 /\ last.pre.int_status = 0) =>
    /\ Events("pub") = {}
    /\ dev.int_status = 0
    /\ irq = 0

\* C8: every head that the notify loop moves last_avail_idx past gets a
\* used-ring entry published for it, at once or at its later completion.
C8_AdvancedHeadsPublished ==
  \A k \in Events("adv") :
    \/ \E j \in Events("pub") : ev[j].head = ev[k].head
    \/ dev.req_in_progress /\ dev.req.desc_idx = ev[k].head

\* C9: a QUEUE_NUM write whose value is zero or not a power of two leaves
\* the selected queue's num unchanged; in every reachable state each queue's
\* num is a power of two greater than 0.
C9_NumPowerOfTwo ==
  /\ \A q \in Queues : dev.queue[q].num > 0 /\ IsPow2(dev.queue[q].num)
  /\ (StoreOf(VIRTIO_MMIO_QUEUE_NUM) /\ (last.lo = 0 \/ ~IsPow2(last.lo))) =>
       dev.queue[dev.queue_sel].num = last.pre.num

\* a write of 6 to the QUEUE_NUM of queue 1, whose num was 4 and stays 4
C9_Witness ==
  /\ StoreOf(VIRTIO_MMIO_QUEUE_NUM) /\ last.lo = 6
  /\ dev.queue_sel = 1
  /\ last.pre.num = 4 /\ dev.queue[1].num = 4

\* C10: in every reachable state each queue's num is at most MAX_QUEUE_NUM,
\* the value the device reports in QUEUE_NUM_MAX.
C10_NumAtMostMax ==
  \A q \in Queues :
    dev.queue[q].num <= virtio_mmio_read(Cur(0), VIRTIO_MMIO_QUEUE_NUM_MAX)

\* what a 32-bit load of register reg returns from the device d
ReadOf(d, reg) == virtio_mmio_read([dev |-> d], reg)

\* the step leaves queue_sel, the other two addresses of the selected queue
\* and the addresses of every other queue as they were
AddrFrame(low) ==
  /\ dev'.queue_sel = dev.queue_sel
  /\ \A q \in Queues : \A r \in AddrLowRegs :
       (q # dev.queue_sel \/ r # low) => AddrOf(dev', q, r) = AddrOf(dev, q, r)

\* C11: for each of the DESC, AVAIL and USED address pairs, a write of lo to
\* the LOW register then of hi to the HIGH register of the selected queue
\* (as two 32-bit stores, or as the 64-bit store that makes them) reads back
\* as lo and hi, the address stored being hi<<32 | lo; queue_sel, the other
\* two addresses and all other queues are unchanged.
C11_AddrRoundTrip ==
  [][\A low \in AddrLowRegs :
       /\ (last'.op = "store" /\ last'.len = 4 /\ last'.addr = low) =>
            /\ ReadOf(dev', low) = last'.lo
            /\ ReadOf(dev', low + 4) = ReadOf(dev, low + 4)
            /\ AddrFrame(low)
       /\ (last'.op = "store" /\ last'.len = 4 /\ last'.addr = low + 4) =>
            /\ ReadOf(dev', low + 4) = last'.lo
            /\ ReadOf(dev', low) = ReadOf(dev, low)
            /\ AddrFrame(low)
       /\ (last'.op = "store" /\ last'.len = 8 /\ last'.addr = low) =>
            /\ ReadOf(dev', low) = last'.lo
            /\ ReadOf(dev', low + 4) = last'.hi
            /\ AddrOf(dev', dev.queue_sel, low) = <<last'.hi, last'.lo>>
            /\ AddrFrame(low)]_vars

\* a 64-bit store to the USED pair of queue 1, whose descriptor table was
\* programmed before, read back with a 64-bit load
C11_Witness ==
  /\ last.op = "load" /\ last.len = 8 /\ last.addr = VIRTIO_MMIO_QUEUE_USED_LOW
  /\ last.val = <<1, 2147483647>>
  /\ dev.queue_sel = 1
  /\ dev.queue[1].used_addr = <<1, 2147483647>>
  /\ dev.queue[1].desc_addr = <<0, 4096>>

\* C12: in every reachable state queue_sel < MAX_QUEUE, so that every
\* per-queue register access indexes inside the queue array; a QUEUE_SEL
\* write with a value >= MAX_QUEUE leaves queue_sel unchanged.
C12_QueueSelInRange ==
  /\ [](dev.queue_sel \in Queues /\ DOMAIN dev.queue = Queues)
  /\ [][(/\ last'.op = "store" /\ last'.len = 4
         /\ last'.addr = VIRTIO_MMIO_QUEUE_SEL
         /\ last'.lo >= MAX_QUEUE) => dev'.queue_sel = dev.queue_sel]_vars

\* a write of 8 to QUEUE_SEL while queue 7, the last one, is selected
C12_Witness ==
  /\ StoreOf(VIRTIO_MMIO_QUEUE_SEL) /\ last.lo = MAX_QUEUE
  /\ dev.queue_sel = MAX_QUEUE - 1

\* C13: a QUEUE_NOTIFY write whose value is >= MAX_QUEUE, or whose queue has
\* manual_recv set, is a no-op: no guest memory is written, recv_request is
\* not called, and last_avail_idx, int_status and the IRQ (the whole device
\* and its backend) are unchanged.
C13_NotifyNoOp ==
  [][(/\ last'.op = "store" /\ last'.len = 4
      /\ last'.addr = VIRTIO_MMIO_QUEUE_NOTIFY
      /\ (last'.lo >= MAX_QUEUE \/ dev.queue[last'.lo].manual_recv)) =>
       /\ mem' = mem
       /\ Events("recv")' = {} /\ Events("adv")' = {} /\ Events("pub")' = {}
       /\ dev' = dev
       /\ irq' = irq
       /\ bf' = bf]_vars

\* a notify of queue 1, which has manual_recv set, its rings programmed and
\* a head waiting in the available ring
C13_Witness ==
  /\ StoreOf(VIRTIO_MMIO_QUEUE_NOTIFY) /\ last.lo = 1
  /\ dev.queue[1].manual_recv
  /\ dev.queue[1].desc_addr # NullAddr /\ dev.queue[1].avail_addr # NullAddr
  /\ GuestAvailIdx > dev.queue[1].last_avail_idx
  /\ Events("recv") = {} /\ npub = 0

\* C14: in every reachable state a 32-bit read of DEVICE_FEATURES returns the
\* device's feature bits when device_features_sel = 0, exactly 1 when
\* device_features_sel = 1, and 0 for every other value of it.
C14_DeviceFeatures ==
  (last.op = "load" /\ last.len = 4 /\ last.addr = VIRTIO_MMIO_DEVICE_FEATURES) =>
    /\ last.ok
    /\ last.val = <<0, IF dev.device_features_sel = 0 THEN dev.device_features
                       ELSE IF dev.device_features_sel = 1 THEN 1 ELSE 0>>

\* a read of DEVICE_FEATURES with selector 1 after DRIVER_OK, returning 1
C14_Witness ==
  /\ last.op = "load" /\ last.len = 4 /\ last.addr = VIRTIO_MMIO_DEVICE_FEATURES
  /\ dev.device_features_sel = 1 /\ dev.status = 15
  /\ last.val = <<0, 1>>

\* The driver's view of its own rings and buffers in the memory mm.
DescIn(mm, idx) == get_desc(mm, [desc_addr |-> G(DescLo)], idx)

\* the header the driver wrote for the chain of head h
HeaderIn(mm, h) == HeaderOf(virtio_memcpy_from_ram(mm, DescIn(mm, h).addr, SizeofHeader))

\* the chain of head h is header, one data descriptor, one status byte
WellFormedIn(mm, h) ==
  /\ DescIn(mm, h).len = SizeofHeader
  /\ DescIn(mm, h).flags = VRING_DESC_F_NEXT
  /\ DescIn(mm, h).next = h + 1
  /\ HasFlag(DescIn(mm, h + 1).flags, VRING_DESC_F_NEXT)
  /\ DescIn(mm, h + 1).next = h + 2
  /\ DescIn(mm, h + 2).flags = VRING_DESC_F_WRITE
  /\ DescIn(mm, h + 2).len = 1

\* the publications among the events e for requests of type t
PubsIn(e, mm, t) ==
  {k \in DOMAIN e :
     /\ e[k].t = "pub"
     /\ WellFormedIn(mm, e[k].head)
     /\ HeaderIn(mm, e[k].head).type = t}

GuestDesc(idx) == DescIn(mem, idx)

GuestHeader(h) == HeaderIn(mem, h)

\* the status byte the driver finds for the chain of head h
StatusByte(h) == Rd8(mem, GuestDesc(h + 2).addr)

\* the publications of the handler that ran last for requests of type t
PubsOf(t) == PubsIn(ev, mem, t)

\* C15: for a well-formed IN request whose writable region is write_size
\* bytes, the device reads (write_size - 1) / 512 sectors starting at the
\* header's sector, copies the data followed by a status byte 0 into the
\* writable descriptors and publishes the used entry (head, write_size); on
\* a fresh queue used.idx becomes 1 and used[0] = (head, write_size).  (The
\* data is compared with the file as the handler leaves it, for the reads
\* that no write of the same handler follows.)
C15_ReadRequest ==
  \A k \in PubsOf(VIRTIO_BLK_T_IN) :
    LET h          == ev[k].head
        data       == GuestDesc(h + 1)
        write_size == data.len + 1
        n          == (write_size - 1) \div SECTOR_SIZE
        sector     == GuestHeader(h).sector_num
    IN /\ ev[k].len = write_size
       /\ ev[k].entry = <<h, write_size>>
       /\ ev[k].idx = (ev[k].old + 1) % W16
       /\ (ev[k].old = 0 /\ npub = 1) =>
            /\ virtio_read16(mem, G(UsedLo + 2)) = 1
            /\ RdLE(mem, G(UsedLo + 4), 4) = h
            /\ RdLE(mem, G(UsedLo + 8), 4) = write_size
       /\ StatusByte(h) = VIRTIO_BLK_S_OK
       /\ (\A j \in PubsOf(VIRTIO_BLK_T_OUT) : j < k) =>
            \A o \in 0 .. (n * SECTOR_SIZE - 1) :
              Rd8(mem, AddrAdd(data.addr, o))
                = Rd8(bf.file, sector * SECTOR_SIZE + o)

\* the first request of a fresh queue: a read of sector 0 into 512 bytes,
\* published as (0, 513) with used.idx 1, the data being the file's sector
C15_Witness ==
  /\ StoreOf(VIRTIO_MMIO_QUEUE_NOTIFY) /\ npub = 1
  /\ \E k \in PubsOf(VIRTIO_BLK_T_IN) :
       /\ ev[k].head = 0 /\ ev[k].old = 0 /\ ev[k].len = SECTOR_SIZE + 1
       /\ GuestHeader(0).sector_num = 0
       /\ Rd8(mem, GuestDesc(1).addr) = 17
       /\ Rd8(mem, AddrAdd(GuestDesc(1).addr, SECTOR_SIZE - 1)) = 33
       /\ StatusByte(0) = 0
  /\ virtio_read16(mem, G(UsedLo + 2)) = 1

\* the bytes of guest memory that differ between two memories
Changed(m1, m2) == {a \in DOMAIN m1 \cup DOMAIN m2 : Rd8(m1, a) # Rd8(m2, a)}

\* the used ring of the driver: flags, idx and MAX_QUEUE_NUM entries
InUsedRing(a) == a[1] = 0 /\ a[2] \in UsedLo .. (UsedLo + 4 + 8 * MAX_QUEUE_NUM - 1)

\* C16: for an OUT request the device publishes the used entry (head, 1)
\* and writes only the status byte; on the RW file the sectors at the
\* header's sector hold the written data and the status is 0; on the RO
\* file the status is 1 (IOERR) and the file is unchanged.
C16_WriteRequest ==
  /\ [](\A k \in PubsOf(VIRTIO_BLK_T_OUT) :
          LET h      == ev[k].head
              data   == GuestDesc(h + 1)
              sector == GuestHeader(h).sector_num
          IN /\ ev[k].entry = <<h, 1>>
             /\ ev[k].len = 1
             /\ bf.mode = BF_MODE_RW =>
                  /\ StatusByte(h) = VIRTIO_BLK_S_OK
                  /\ \A o \in 0 .. (data.len - 1) :
                       Rd8(bf.file, sector * SECTOR_SIZE + o)
                         = Rd8(mem, AddrAdd(data.addr, o))
             /\ bf.mode = BF_MODE_RO => StatusByte(h) = VIRTIO_BLK_S_IOERR)
  /\ [](bf.mode = BF_MODE_RO => bf.file = FileImage(NbSectors))
  /\ [][(last'.op = "store" /\ last'.addr = VIRTIO_MMIO_QUEUE_NOTIFY) =>
          LET outs == {DescIn(mem', ev'[k].head + 2).addr :
                         k \in PubsIn(ev', mem', VIRTIO_BLK_T_OUT)}
              ins  == {ev'[k].head : k \in PubsIn(ev', mem', VIRTIO_BLK_T_IN)}
          IN \A a \in Changed(mem, mem') :
               \/ InUsedRing(a)
               \/ a \in outs
               \/ \E h \in ins :
                    \/ a = DescIn(mem', h + 2).addr
                    \/ InRange(a, DescIn(mem', h + 1).addr,
                               DescIn(mem', h + 1).len)]_vars

\* a write of sector 1 completed on the RW file: the file holds the data
C16_Witness ==
  /\ StoreOf(VIRTIO_MMIO_QUEUE_NOTIFY) /\ bf.mode = BF_MODE_RW
  /\ \E k \in PubsOf(VIRTIO_BLK_T_OUT) :
       /\ ev[k].entry = <<ev[k].head, 1>>
       /\ GuestHeader(ev[k].head).sector_num = 1
       /\ StatusByte(ev[k].head) = 0
       /\ Rd8(bf.file, SECTOR_SIZE) = 170
       /\ Rd8(bf.file, 2 * SECTOR_SIZE - 1) = 170

\* the chain of head h is a header and one writable status byte
HeaderAndStatus(h) ==
  /\ GuestDesc(h).len = SizeofHeader /\ GuestDesc(h).flags = VRING_DESC_F_NEXT
  /\ GuestDesc(h).next = h + 1
  /\ GuestDesc(h + 1).flags = VRING_DESC_F_WRITE /\ GuestDesc(h + 1).len = 1

\* C17: a block request whose header type is 4 or 5 (FLUSH) completes with
\* status byte 0 (OK), and a request with any type other than 0, 1, 4, 5
\* completes with status byte 2 (UNSUPP); in both cases a used entry is
\* published for the head.
C17_FlushAndUnsupported ==
  \A k \in Events("recv") :
    LET h == ev[k].head
        t == GuestHeader(h).type
    IN (HeaderAndStatus(h) /\ t \notin {VIRTIO_BLK_T_IN, VIRTIO_BLK_T_OUT}) =>
         /\ \E j \in Events("pub") : ev[j].head = h
         /\ Rd8(mem, GuestDesc(h + 1).addr)
              = IF t \in {VIRTIO_BLK_T_FLUSH, VIRTIO_BLK_T_FLUSH_OUT}
                THEN VIRTIO_BLK_S_OK ELSE VIRTIO_BLK_S_UNSUPP

\* the number of sectors the request of head h transfers
SectorsOf(h) == GuestDesc(h + 1).len \div SECTOR_SIZE

\* C18: a block read or write whose sector range [sector, sector + n)
\* extends past the backend's sector count completes with status byte 1
\* (IOERR), in every backend mode (RO, RW, SNAPSHOT).
C18_OutOfRangeIsError ==
  \A k \in PubsOf(VIRTIO_BLK_T_IN) \cup PubsOf(VIRTIO_BLK_T_OUT) :
    LET h == ev[k].head
    IN GuestHeader(h).sector_num + SectorsOf(h) > bf.nb_sectors =>
         StatusByte(h) = VIRTIO_BLK_S_IOERR

\* what a caller reads from sector x of the backend b
SectorOf(b, x) == bf_read_async(b, x, EmptyBuf, 1, 0).buf

\* sector x of the file as it was opened
FileSector(x) == BufSlice(FileImage(NbSectors), x * SECTOR_SIZE, SECTOR_SIZE)

BackendOp(op) == last.op = op

\* C19: for the SNAPSHOT backend, after any sequence of in-range writes and
\* reads, reading a sector returns the bytes of the last write to that
\* sector, or the file's bytes if it was never written, and the file's
\* contents are never changed.  (By induction over the sequence: at first
\* every sector reads as the file's; a write makes the sectors it covers
\* read as its data and leaves how the others read; a read returns what the
\* sectors read as and changes nothing.)
C19_SnapshotReadsLastWrite ==
  /\ \A x \in 0 .. (NbSectors - 1) : SectorOf(bf, x) = FileSector(x)
  /\ [](bf.file = FileImage(NbSectors) /\ bf.fsize = NbSectors * SECTOR_SIZE)
  /\ [][last'.op = "bf_write" =>
          /\ last'.ret = 0
          /\ \A x \in 0 .. (NbSectors - 1) :
               SectorOf(bf', x)
                 = IF x >= last'.sector /\ x < last'.sector + last'.n
                   THEN BufSlice(last'.buf, (x - last'.sector) * SECTOR_SIZE,
                                 SECTOR_SIZE)
                   ELSE SectorOf(bf, x)]_vars
  /\ [][last'.op = "bf_read" =>
          /\ last'.ret = 0
          /\ bf' = bf
          /\ \A i \in 0 .. (last'.n - 1) :
               BufSlice(last'.buf, i * SECTOR_SIZE, SECTOR_SIZE)
                 = SectorOf(bf, last'.sector + i)]_vars

\* a read of sectors 0 and 1 after sector 1 was written 85 and sector 0
\* never: the file's sector 0, then the written data
C19_Witness ==
  /\ BackendOp("bf_read") /\ last.sector = 0 /\ last.n = 2
  /\ 0 \notin DOMAIN bf.sector_table
  /\ BufSlice(last.buf, 0, SECTOR_SIZE) = FileSector(0)
  /\ BufSlice(last.buf, SECTOR_SIZE, SECTOR_SIZE) = SectorBuf(85)
  /\ bf.file = FileImage(NbSectors)

\* whether sector + n, the sum of a uint64_t sector (2^64 - j being written
\* -j) and a count, is greater than the sector count nb
PastEnd(sector, n, nb) == sector < 0 \/ sector + n > nb

\* C20: in SNAPSHOT mode a write with sector + n greater than the backing
\* file's sector count returns an error (-1) and leaves the overlay and the
\* file unchanged.
C20_SnapshotWritePastEnd ==
  (BackendOp("bf_write") /\ PastEnd(last.sector, last.n, last.pre.nb_sectors)) =>
    /\ last.ret = -1
    /\ halt = "no"
    /\ bf = last.pre

\* the chain of head h is a single readable descriptor holding a header
HeaderAlone(h) == GuestDesc(h).len = SizeofHeader /\ GuestDesc(h).flags = 0

\* C21: when the driver submits an IN request whose chain is a single
\* readable descriptor (write_size = 0), the device publishes the used entry
\* (head, 0) and performs no out-of-bounds access on its host-side request
\* buffer.
C21_ZeroWriteSize ==
  \A k \in Events("recv") :
    (HeaderAlone(ev[k].head) /\ GuestHeader(ev[k].head).type = VIRTIO_BLK_T_IN) =>
      /\ \E j \in Events("pub") :
           ev[j].head = ev[k].head /\ ev[j].entry = <<ev[k].head, 0>>
      /\ \A j \in Events("oob") : ev[j].head # ev[k].head

\* C22: at most one block request is outstanding: while req_in_progress is
\* true, recv_request returns -1 (the notify loop stops without advancing)
\* without calling the backend and without changing the in-flight request
\* record; req_in_progress becomes true exactly when a backend read or write
\* returns > 0 (the backend then owes a completion) and false again only in
\* the completion callback.
C22_SingleOutstanding ==
  /\ [](dev.req_in_progress <=> bf.pending)
  /\ [][(dev.req_in_progress /\ last'.op # "cb") =>
          /\ dev'.req_in_progress
          /\ dev'.req = dev.req
          /\ bf' = bf
          /\ \A k \in DOMAIN ev' : ev'[k].t \notin {"adv", "pub"}]_vars
  /\ [][(~dev.req_in_progress /\ dev'.req_in_progress) =>
          /\ bf'.pending
          /\ \E k \in DOMAIN ev' : ev'[k].t = "recv"]_vars
  /\ [][(dev.req_in_progress /\ ~dev'.req_in_progress) =>
          last'.op = "cb"]_vars

\* a NOTIFY while the read of head 0 is in flight: recv_request was called
\* for head 3 and nothing advanced
C22_Witness ==
  /\ StoreOf(VIRTIO_MMIO_QUEUE_NOTIFY)
  /\ dev.req_in_progress /\ dev.req.desc_idx = 0
  /\ \E k \in Events("recv") : ev[k].head = 3
  /\ Events("adv") = {}
  /\ dev.queue[0].last_avail_idx = 1

\* avail.idx of the queue the block device serves, as the device reads it
AvailIdxOf(d, mm, q) == virtio_read16(mm, AddrAdd(d.queue[q].avail_addr, 2))

\* the notify loop has caught up with the available ring of queue 0
CaughtUp == dev.queue[0].last_avail_idx = AvailIdxOf(dev, mem, 0)

\* C23: heads the driver adds to the available ring while a block request
\* is in flight are processed without another QUEUE_NOTIFY write: the
\* completion callback first publishes the used entry of the finished
\* request and then re-runs queue_notify on that queue (it stops only at the
\* end of the ring or with the next request in flight), so that, if every
\* backend call eventually completes, last_avail_idx eventually equals
\* avail.idx.
C23_CallbackRenotifies ==
  /\ [][last'.op = "cb" =>
          /\ ev' # << >>
          /\ ev'[1].t = "pub" /\ ev'[1].head = dev.req.desc_idx
          /\ ev'[1].q = dev.req.queue_idx
          /\ \/ dev'.req_in_progress
             \/ dev'.queue[dev.req.queue_idx].last_avail_idx
                  = AvailIdxOf(dev', mem', dev.req.queue_idx)]_vars
  /\ (dev.req_in_progress ~> (~dev.req_in_progress /\ CaughtUp))

\* the completion of the request of head 0 with head 3 added meanwhile: the
\* callback published head 0 and went on to head 3
C23_Witness ==
  /\ last.op = "cb"
  /\ ev[1].t = "pub" /\ ev[1].head = 0
  /\ \E k \in Events("recv") : ev[k].head = 3
  /\ dev.queue[0].last_avail_idx = 2 /\ CaughtUp

\* the operation that ran last is a load or store of the UART
UartAccess == last.op \in {"uart_load", "uart_store"}

\* C24: for both devices, load and store return false exactly when len
\* exceeds 8 or the address falls outside the device's window; every other
\* access (any len <= 8 at an address inside the window) returns true.
C24_AccessAccepted ==
  /\ DeviceOp => (last.ok <=> last.len <= 8)
  /\ UartAccess =>
       ((last.ok /\ halt = "no") <=> (last.len <= 8 /\ last.addr < UART_WINDOW))

\* the operation that ran last is a load or store of width 1 or 2 of the
\* block device
NarrowOp(op) == last.op = op /\ last.len \in NarrowLens

\* C25: on the VirtIO block device a load of width 1 or 2 at any register
\* offset returns zero-filled bytes with success, and a store of width 1 or 2
\* returns success and leaves the whole device state (registers, queues,
\* int_status, IRQ, guest memory) unchanged.
C25_NarrowAccess ==
  /\ [](NarrowOp("load") => (last.ok /\ last.val = <<0, 0>>))
  /\ [](NarrowOp("store") => last.ok)
  /\ [][(last'.op \in {"load", "store"} /\ last'.len \in NarrowLens)
          => (dev' = dev /\ mem' = mem /\ irq' = irq /\ bf' = bf
              /\ halt' = halt)]_vars

\* a 2-byte store at QUEUE_NOTIFY while a request waits in the ready queue 0
\* and an interrupt is pending: the same store of width 4 would have run the
\* request
C25_Witness ==
  /\ NarrowOp("store") /\ last.len = 2 /\ last.addr = VIRTIO_MMIO_QUEUE_NOTIFY
  /\ dev.queue[0].ready = 1 /\ dev.status # 0 /\ dev.int_status = 1
  /\ AvailIdxOf(dev, mem, 0) # dev.queue[0].last_avail_idx

\* a 1-byte load of INTERRUPT_STATUS while an interrupt is pending
C25_WitnessLoad ==
  /\ NarrowOp("load") /\ last.len = 1
  /\ last.addr = VIRTIO_MMIO_INTERRUPT_STATUS /\ dev.int_status = 1

\* the step is a UART load of len bytes at RXFIFO
RxLoad(len) ==
  last'.op = "uart_load" /\ last'.addr = UART_RXFIFO /\ last'.len = len

\* what a load of RXFIFO does to a FIFO: nothing when it is empty, otherwise
\* the oldest byte leaves
RxPopped == uart'.rx_fifo = IF uart.rx_fifo = << >> THEN << >> ELSE Tail(uart.rx_fifo)

\* the value a load of RXFIFO delivers: 0x80000000 when the FIFO is empty,
\* otherwise its oldest byte with bit 31 clear
RxValue == IF uart.rx_fifo = << >> THEN <<1, 0>> ELSE <<0, Head(uart.rx_fifo) % 256>>

\* the step is a tick that enqueued the byte it read at the FIFO's end
TickEnqueued ==
  /\ last'.op = "uart_tick" /\ last'.read /\ last'.rc >= 0
  /\ uart'.rx_fifo = Append(uart.rx_fifo, last'.rc)

\* C26, as stated: a load of RXFIFO (of any width) returns 0x80000000 and
\* leaves the FIFO unchanged when the RX FIFO is empty; otherwise it removes
\* and returns the oldest enqueued byte.
C26_RxFifoAnyWidth ==
  [][(\E len \in UartLens : RxLoad(len))
       => (last'.ok /\ last'.val = RxValue /\ RxPopped)]_vars

\* C26, amended: a 4-byte load of RXFIFO returns 0x80000000 and leaves the
\* FIFO unchanged when the RX FIFO is empty; otherwise it removes and returns
\* the oldest enqueued byte (bit 31 clear); ticks enqueue at the other end,
\* so bytes are read in the order ticks enqueued them, and after the last
\* one the next read returns 0x80000000.  A load of fewer than 4 bytes pops
\* the same way and delivers only the low bytes of that value.
C26_RxFifoOrder ==
  /\ [][RxLoad(4) => (last'.ok /\ last'.val = RxValue /\ RxPopped)]_vars
  /\ [][(\E len \in UartLens : RxLoad(len))
          => (last'.ok /\ last'.val = LowBytes(RxValue, last'.len)
              /\ RxPopped)]_vars
  /\ [][(last'.op = "uart_tick" /\ uart'.rx_fifo # uart.rx_fifo)
          => TickEnqueued]_vars

\* 'A' then the byte 200 were enqueued; the 4-byte load that ran last
\* returned 'A' and left the byte 200 in the FIFO
C26_Witness ==
  /\ last.op = "uart_load" /\ last.addr = UART_RXFIFO /\ last.len = 4
  /\ last.pre.rx_fifo = <<65, 200>>
  /\ last.val = <<0, 65>>
  /\ uart.rx_fifo = <<200>>

\* a 4-byte load of the empty FIFO, after the load that emptied it
C26_WitnessEmpty ==
  /\ last.op = "uart_load" /\ last.addr = UART_RXFIFO /\ last.len = 4
  /\ last.pre.rx_fifo = << >> /\ last.val = <<1, 0>>

\* the pending bits of a FIFO
IpOf(fifo) == UART_IP_TXWM + (IF Len(fifo) > 0 THEN UART_IP_RXWM ELSE 0)

\* C27: after every UART operation (load, store, tick) the UART interrupt
\* line equals (IE & IP) != 0, where IP.tx is always 1 and IP.rx is 1
\* exactly when the RX FIFO is non-empty; in particular IP.rx is 1 after a
\* tick enqueues a byte and 0 after the read that empties the FIFO.
C27_InterruptLine ==
  /\ [](uart.irq = IF BitAnd(uart.ie, IpOf(uart.rx_fifo)) # 0 THEN 1 ELSE 0)
  /\ []((last.op = "uart_load" /\ last.addr = UART_IP /\ last.len = 4)
          => last.val = <<0, IpOf(uart.rx_fifo)>>)
  /\ [][TickEnqueued => read_ip(uart') = UART_IP_TXWM + UART_IP_RXWM]_vars
  /\ [][((\E len \in UartLens : RxLoad(len)) /\ Len(uart.rx_fifo) = 1)
          => read_ip(uart') = UART_IP_TXWM]_vars

\* with only the receive interrupt enabled, the load that emptied the FIFO
\* lowered the line a tick had raised
C27_Witness ==
  /\ last.op = "uart_load" /\ last.addr = UART_RXFIFO
  /\ uart.ie = UART_IP_RXWM
  /\ last.pre.irq = 1 /\ Len(last.pre.rx_fifo) = 1
  /\ uart.irq = 0 /\ uart.rx_fifo = << >>

\* C28: the UART RX FIFO never holds more than 8 bytes: a tick enqueues at
\* most one byte, and when the FIFO already holds 8 bytes a tick neither
\* reads host stdin nor changes the FIFO or the interrupt line.
C28_FifoBounded ==
  /\ [](Len(uart.rx_fifo) <= 8)
  /\ [][last'.op = "uart_tick"
          => /\ Len(uart'.rx_fifo) <= Len(uart.rx_fifo) + 1
             /\ (uart'.rx_fifo # uart.rx_fifo => TickEnqueued)
             /\ (Len(uart.rx_fifo) >= 8 =>
                   (~last'.read /\ uart' = uart))]_vars

\* a tick on a full FIFO, the receive interrupt raised
C28_Witness ==
  /\ last.op = "uart_tick" /\ ~last.read
  /\ Len(uart.rx_fifo) = 8 /\ uart.irq = 1

\* during and after the publication that ran last: used.idx counts its
\* entry; its slot holds (head, len); it has raised the line that was low
IdxCounts ==
  virtio_read16(mem, AddrAdd(dev.queue[0].used_addr, 2)) = (last.index + 1) % W16

EntryStored ==
  LET at == consume_desc_slot(Cur(0), 0, last.index)
  IN /\ RdLE(mem, at, 4) = last.head
     /\ RdLE(mem, AddrAdd(at, 4), 4) = last.len

IrqRaised == last.pre.irq = 0 /\ irq = 1

\* the stores of virtio_consume_desc taken one at a time end in the state
\* virtio_consume_desc returns
ConsumeStepsAgree ==
  (last.op = "consume" /\ last.pc = 4) =>
    LET m == virtio_consume_desc(last.pre, 0, last.head, last.len)
    IN dev = m.dev /\ mem = m.mem /\ irq = m.irq

\* C29: within one used-ring publication the guest-visible effects happen in
\* the order: store of the ring entry (head, len), then the used.idx
\* increment, then the IRQ raise; there is no intermediate state in which
\* used.idx already counts an entry whose slot has not yet been written.
C29_PublicationOrder ==
  last.op = "consume" =>
    /\ IdxCounts => EntryStored
    /\ IrqRaised => IdxCounts

\* what the code does: used.idx is incremented first, then the entry is
\* stored, then the interrupt is raised
C29_IdxFirst ==
  last.op = "consume" =>
    /\ IdxCounts
    /\ EntryStored => last.pc >= 3
    /\ IrqRaised => (EntryStored /\ last.pc = 4)

\* used.idx counts the entry (3, 513) and its slot is still empty
C29_IdxAhead ==
  /\ last.op = "consume" /\ last.pc = 1 /\ last.head = 3 /\ last.len = 513
  /\ IdxCounts /\ ~EntryStored /\ irq = 0

\* the step ran queue_notify on queue q to its return: a QUEUE_NOTIFY write
\* of q, or the completion callback of a request of queue q
NotifyReturned(q) ==
  /\ halt' = "no"
  /\ ~dev.queue[q].manual_recv
  /\ \/ /\ last'.op = "store" /\ last'.len = 4
        /\ last'.addr = VIRTIO_MMIO_QUEUE_NOTIFY /\ last'.lo = q
     \/ last'.op = "cb" /\ dev.req.queue_idx = q

\* device_recv returned a value < 0 in the call that logged e: the call
\* ended with a request handed over and no advance after it
PushedBack(e) == e # << >> /\ e[Len(e)].t = "recv"

\* C30: for every queue and every sequence of notifies, when queue_notify
\* returns, last_avail_idx equals the avail.idx value it read, unless
\* recv_request returned a value < 0 (push-back) during that call.
\* The value read is avail.idx of the queue's available ring, which the
\* driver writes and the call leaves as it was.
C30_NotifyCatchesUp ==
  [][\A q \in Queues :
       (/\ NotifyReturned(q)
        /\ ~PushedBack(ev')
        /\ AvailIdxOf(dev', mem', q) = AvailIdxOf(dev, mem, q))
         => dev'.queue[q].last_avail_idx = AvailIdxOf(dev, mem, q)]_vars

\* a notify that found two heads waiting, one of them rejected by
\* get_desc_rw_size, and handled them both
C30_Witness ==
  /\ StoreOf(VIRTIO_MMIO_QUEUE_NOTIFY)
  /\ Cardinality(Events("adv")) = 2 /\ Cardinality(Events("recv")) = 1
  /\ dev.queue[0].last_avail_idx = 2 /\ CaughtUp

\* a notify pushed back at its first head, a request being in flight
C30_WitnessPushBack ==
  /\ StoreOf(VIRTIO_MMIO_QUEUE_NOTIFY)
  /\ PushedBack(ev) /\ Events("adv") = {}
  /\ dev.req_in_progress /\ ~CaughtUp

\* the events of kind t for queue q among the events e
EventsIn(e, t, q) == {k \in DOMAIN e : e[k].t = t /\ e[k].q = q}

\* the calls of recv_request for queue q among the events e that returned 0:
\* all of them, but the last one when it pushed back
Returned0(e, q) ==
  Cardinality(EventsIn(e, "recv", q))
    - (IF PushedBack(e) /\ e[Len(e)].q = q THEN 1 ELSE 0)

\* the heads of queue q among the events e that the loop passed without
\* calling recv_request, get_desc_rw_size having rejected their chain
RejectedIn(e, d, mm, q) ==
  {k \in EventsIn(e, "adv", q) :
     get_desc_rw_size(mm, d.queue[q], e[k].head).ret # 0}

\* the step is a STATUS write of 0
ResetStep ==
  /\ last'.op = "store" /\ last'.len = 4
  /\ last'.addr = VIRTIO_MMIO_STATUS /\ last'.lo = 0

\* the head the loop of queue q takes next
HeadAt(d, mm, q) ==
  virtio_read16(mm, AddrAdd(d.queue[q].avail_addr,
                  4 + BitAnd(d.queue[q].last_avail_idx, d.queue[q].num - 1) * 2))

\* a push-back leaves last_avail_idx pointing at the head pushed back
PushBackKeepsHead ==
  \A q \in Queues :
    (halt' = "no" /\ PushedBack(ev') /\ ev'[Len(ev')].q = q)
      => HeadAt(dev', mem', q) = ev'[Len(ev')].head

\* C31, as stated: in the notify loop a recv_request return value < 0 stops
\* the loop with last_avail_idx still pointing at that head, and a return
\* value of 0 advances last_avail_idx by exactly 1 modulo 2^16;
\* last_avail_idx changes in no other way except that reset sets it to 0.
C31_AdvanceOnlyOnReturn ==
  [][/\ PushBackKeepsHead
     /\ \A q \in Queues :
          halt' = "no" =>
            dev'.queue[q].last_avail_idx =
              IF ResetStep THEN 0
              ELSE (dev.queue[q].last_avail_idx + Returned0(ev', q)) % W16]_vars

\* C31, amended: a recv_request return value < 0 stops the loop with
\* last_avail_idx still pointing at that head, and a return value of 0
\* advances last_avail_idx by exactly 1 modulo 2^16; so does a head whose
\* chain get_desc_rw_size rejects, for which recv_request is not called;
\* last_avail_idx changes in no other way except that reset sets it to 0.
C31_AdvancePerHead ==
  [][/\ PushBackKeepsHead
     /\ \A q \in Queues :
          halt' = "no" =>
            dev'.queue[q].last_avail_idx =
              IF ResetStep THEN 0
              ELSE (dev.queue[q].last_avail_idx + Returned0(ev', q)
                      + Cardinality(RejectedIn(ev', dev, mem, q))) % W16]_vars

\* the notify that took the head at last_avail_idx = 65535: recv_request
\* returned 0 and last_avail_idx is 0
C31_Witness ==
  /\ StoreOf(VIRTIO_MMIO_QUEUE_NOTIFY) /\ last.pre.lai = W16 - 1
  /\ Returned0(ev, 0) = 1 /\ Cardinality(EventsIn(ev, "adv", 0)) = 1
  /\ dev.queue[0].last_avail_idx = 0

\* a notify pushed back: last_avail_idx is where it was, at the head offered
C31_WitnessPushBack ==
  /\ StoreOf(VIRTIO_MMIO_QUEUE_NOTIFY) /\ PushedBack(ev)
  /\ EventsIn(ev, "adv", 0) = {}
  /\ dev.queue[0].last_avail_idx = last.pre.lai
  /\ HeadAt(dev, mem, 0) = ev[Len(ev)].head

\* a reset of a device whose last_avail_idx was 2
C31_WitnessReset ==
  /\ StoreOf(VIRTIO_MMIO_STATUS) /\ last.lo = 0 /\ last.pre.lai = 2
  /\ dev.queue[0].last_avail_idx = 0

\* a notify that passed a rejected head without calling recv_request
C31_WitnessRejected ==
  /\ StoreOf(VIRTIO_MMIO_QUEUE_NOTIFY)
  /\ EventsIn(ev, "recv", 0) = {} /\ Cardinality(EventsIn(ev, "adv", 0)) = 1
  /\ dev.queue[0].last_avail_idx = (last.pre.lai + 1) % W16

\* C32: handling a QUEUE_NOTIFY store terminates for every content of guest
\* memory the driver can program, including descriptor tables whose next
\* links form a cycle (a descriptor with NEXT set that points to itself or
\* to an earlier descriptor of the chain).
C32_NotifyTerminates == halt # "hang"

\* the notify of a well-formed read returns
C32_ReadReturns ==
  /\ StoreOf(VIRTIO_MMIO_QUEUE_NOTIFY) /\ halt = "no"
  /\ Events("pub") # {}

\* the notify over a chain with a cycle never returns and has not called
\* recv_request: the walk of get_desc_rw_size does not end
C32_WalkNeverEnds ==
  /\ StoreOf(VIRTIO_MMIO_QUEUE_NOTIFY) /\ halt = "hang"
  /\ Events("recv") = {}

\* the number of leading descriptors of the chain without WRITE
RECURSIVE Leading(_, _)
Leading(shape, k) ==
  IF k > Len(shape) \/ shape[k][2] THEN k - 1 ELSE Leading(shape, k + 1)

\* the lens of the leading descriptors without WRITE, and of those after
ReadLens(shape) == [k \in 1 .. Leading(shape, 1) |-> shape[k][1]]

WriteLens(shape) ==
  [k \in 1 .. (Len(shape) - Leading(shape, 1)) |->
     shape[Leading(shape, 1) + k][1]]

\* a descriptor without WRITE follows a descriptor with WRITE
ReadAfterWrite(shape) ==
  \E j, k \in DOMAIN shape : j < k /\ shape[j][2] /\ ~shape[k][2]

\* x is the sum of lens
RECURSIVE SumIs(_, _)
SumIs(x, lens) ==
  IF lens = << >> THEN x = 0
  ELSE x >= Head(lens) /\ SumIs(x - Head(lens), Tail(lens))

\* the sum of lens is at most room
RECURSIVE Fits(_, _)
Fits(lens, room) ==
  lens = << >> \/ (Head(lens) <= room /\ Fits(Tail(lens), room - Head(lens)))

\* the sum of lens reduced modulo 2^32 to an int
RECURSIVE SumInt(_, _)
SumInt(lens, acc) ==
  IF lens = << >> THEN acc ELSE SumInt(Tail(lens), add_int(acc, Head(lens)))

\* queue_notify calls recv_request only for heads whose chain
\* get_desc_rw_size accepts
RecvOnlyAccepted ==
  StoreOf(VIRTIO_MMIO_QUEUE_NOTIFY) =>
    \A k \in Events("recv") :
      get_desc_rw_size(mem, dev.queue[ev[k].q], ev[k].head).ret = 0

C33_WitnessError ==
  /\ last.op = "rw_size" /\ Len(last.shape) = 3
  /\ ~last.shape[1][2] /\ last.shape[2][2] /\ ~last.shape[3][2]
  /\ last.r.ret = -1

\* a notify over a head whose chain is rejected and a well-formed read:
\* recv_request was called for the read alone
C33_WitnessNotify ==
  /\ StoreOf(VIRTIO_MMIO_QUEUE_NOTIFY)
  /\ Cardinality(Events("adv")) = 2 /\ Cardinality(Events("recv")) = 1

\* two writable descriptors of 2^30 bytes: write_size is -2^31
C33_Wrapped ==
  /\ last.op = "rw_size"
  /\ last.shape = <<<<BigLen, TRUE>>, <<BigLen, TRUE>>>>
  /\ last.r.ret = 0 /\ last.r.write_size < 0

(***************************************************************************)
(* C34: what memcpy_to_from_queue returns and transfers, and what the      *)
(* block front end publishes when a copy fails                             *)
(***************************************************************************)
RECURSIVE FirstOf(_, _)
\* the first descriptor from k on that the device may write, or past the end
FirstOf(shape, k) ==
  IF k > Len(shape) \/ shape[k][2] THEN k ELSE FirstOf(shape, k + 1)

RECURSIVE StreamOf(_, _, _)
\* the bytes <<k, j>> of the descriptors of direction dir from k on, up to
\* the end of the chain or the first descriptor of the other direction
StreamOf(shape, k, dir) ==
  IF k > Len(shape) \/ shape[k][2] # dir THEN << >>
  ELSE [j \in 1 .. shape[k][1] |-> <<k, j - 1>>]
         \o StreamOf(shape, k + 1, dir)

\* the bytes a copy in direction dir can reach from the head of the chain
Reach(shape, dir) ==
  StreamOf(shape, IF dir THEN FirstOf(shape, 1) ELSE 1, dir)

\* the guest address of byte p = <<k, j>>
ProbeAddr(p) == G(BufLo(p[1] - 1) + p[2])

BufGet(buf, i) == IF i \in DOMAIN buf THEN buf[i] ELSE 0

\* a probe that returned 0 transferred exactly cnt bytes, starting off
\* bytes into the descriptors of its direction
Transferred(l) ==
  LET s == Reach(l.shape, l.dir)
  IN /\ l.off + l.cnt <= Len(s)
     /\ IF l.dir
        THEN /\ l.mq.buf = ProbeHost
             /\ Changed(l.before, l.mq.mem)
                  = {ProbeAddr(s[l.off + i]) : i \in 1 .. l.cnt}
             /\ \A i \in 1 .. l.cnt :
                  Rd8(l.mq.mem, ProbeAddr(s[l.off + i])) = HostByte(i - 1)
        ELSE /\ l.mq.mem = l.before
             /\ DOMAIN l.mq.buf = 0 .. (l.cnt - 1)
             /\ \A i \in 1 .. l.cnt :
                  BufGet(l.mq.buf, i - 1)
                    = ProbeByte(s[l.off + i][1], s[l.off + i][2])

\* memcpy_to_from_queue returns -1 exactly when, with bytes still to skip
\* or copy, the chain has a descriptor of the other direction or no NEXT
\* link; otherwise it returns 0 after transferring exactly count bytes
CopyReturn(l) ==
  l.op = "mq" =>
    /\ ~l.mq.hang
    /\ l.mq.ret \in {0, -1}
    /\ l.mq.ret = -1 <=>
         (l.cnt > 0 /\ l.off + l.cnt > Len(Reach(l.shape, l.dir)))
    /\ l.mq.ret = 0 /\ l.cnt > 0 => Transferred(l)
    /\ l.cnt = 0 => /\ l.mq.mem = l.before
                    /\ l.mq.buf = (IF l.dir THEN ProbeHost ELSE EmptyBuf)

C34_CopyReturn == CopyReturn(last)

\* whether the copy of the request header of head fails in memory mm
HeaderCopyFails(d, mm, q, head) ==
  memcpy_from_queue(mm, d.queue[q], EmptyBuf, head, 0, SizeofHeader).ret < 0

\* the heads handed to virtio_block_recv_request in this step whose header
\* copy fails
FailedHeads(q) ==
  {ev'[k].head : k \in {x \in DOMAIN ev' :
                          /\ ev'[x].t = "recv" /\ ev'[x].q = q
                          /\ HeaderCopyFails(dev, mem, q, ev'[x].head)}}

PublishedZero(e, q, head) ==
  \E k \in DOMAIN e :
    e[k].t = "pub" /\ e[k].q = q /\ e[k].head = head /\ e[k].len = 0

FailedCopyPublishesZero ==
  \A q \in Queues :
    NotifyReturned(q) =>
      \A head \in FailedHeads(q) : PublishedZero(ev', q, head)

\* C34: memcpy_to_from_queue returns -1 when, with bytes still to skip or
\* copy, the chain has a descriptor of the other direction or no NEXT link,
\* and then the block front end still publishes a used entry for the head
\* with length 0; on a well-formed chain it returns 0 after transferring
\* exactly count bytes starting offset bytes into the descriptors of the
\* requested direction
C34_FailedCopyPublishesZero ==
  [][CopyReturn(last') /\ FailedCopyPublishesZero]_vars

\* a copy failed on a descriptor of the other direction
C34_WitnessOtherDirection ==
  /\ last.op = "mq" /\ last.mq.ret = -1 /\ ~last.dir
  /\ Len(last.shape) > 1 /\ last.shape[2][2] /\ ~last.shape[1][2]

\* a copy to the queue crossed from one descriptor into the next
C34_WitnessCrossing ==
  /\ last.op = "mq" /\ last.mq.ret = 0 /\ last.dir
  /\ last.off = 1 /\ last.cnt = 2
  /\ last.shape = <<<<1, FALSE>>, <<2, TRUE>>, <<1, TRUE>>>>

\* a head whose header copy failed was received and nothing was published
C34_WitnessNothingPublished ==
  /\ last.op = "store" /\ halt = "no"
  /\ \E k \in DOMAIN ev : ev[k].t = "recv"
  /\ \A k \in DOMAIN ev : ev[k].t # "pub"
  /\ \E k \in DOMAIN ev : ev[k].t = "adv"

(***************************************************************************)
(* C35: the file backend never leaves a request in flight                  *)
(***************************************************************************)
\* the request of head is a read or a write
Transfers(mm, head) ==
  HeaderIn(mm, head).type \in {VIRTIO_BLK_T_IN, VIRTIO_BLK_T_OUT}

\* the used entry of the request received as event k is published before
\* recv_request returns
CompletedInCall(e, k) ==
  /\ k + 1 \in DOMAIN e
  /\ e[k + 1].t = "pub" /\ e[k + 1].q = e[k].q /\ e[k + 1].head = e[k].head

SyncNotify(q) ==
  NotifyReturned(q) =>
    /\ ~PushedBack(ev')
    /\ \A k \in EventsIn(ev', "recv", q) :
         Transfers(mem, ev'[k].head) => CompletedInCall(ev', k)

C35_WitnessError ==
  /\ StoreOf(VIRTIO_MMIO_QUEUE_NOTIFY) /\ halt = "no"
  /\ bf.mode = BF_MODE_RO
  /\ ~dev.req_in_progress
  /\ \E k \in Events("recv") :
       /\ HeaderIn(mem, ev[k].head).type = VIRTIO_BLK_T_OUT
       /\ CompletedInCall(ev, k)

=============================================================================
